---- MODULE Spec2Model ----
(***************************************************************************)
(* A model of the oak dependency-injection container: registration of     *)
(* constructors, the Build pass (depth-first validation fused with the     *)
(* eager construction of singletons), Resolve / ResolveNamed and Shutdown. *)
(*                                                                         *)
(* Every handler of the container holds c.mu from its first statement to   *)
(* its return.  Spec runs the handlers one after the other, each as one    *)
(* action; what happens inside a handler is observable through the history *)
(* variable calls, which lists the constructor invocations of the last     *)
(* handler in order, each with the singleton cache it ran against.         *)
(* Concurrent runs the handlers of two goroutines statement group by       *)
(* statement group under the lock c.mu.                                    *)
(* Builds runs Build that way on a container that already holds its       *)
(* registrations.                                                          *)
(***************************************************************************)
EXTENDS Naturals, Sequences, FiniteSets

(* ---------------------------------------------------------------------- *)
(* Bound of the exploration                                               *)
(* ---------------------------------------------------------------------- *)
MaxCalls == 5       \* constructor invocations per behaviour

(* ---------------------------------------------------------------------- *)
(* Input domains: type identities, names, constructors                    *)
(* ---------------------------------------------------------------------- *)
Types == {"A", "B", "C"}
Names == {"n1"}

\* the dynamic types that implement io.Closer
ClosableTypes == {"A", "B", "C"}

\* the closable types whose Close may return an error
CloseErrTypes == {"A"}

\* the types whose constructors have the signature func(...) (T, error)
\* and may return a non-nil error
FallibleTypes == {"B"}

\* the constructors offered to Register: A needs nothing, or B and C (by
\* which C is reached from A directly and through B); B needs C, or needs
\* A (the cycle A -> B -> A); C needs nothing, or itself (the
\* self-dependency C -> C)
Constructors ==
    {[out |-> "A", ins |-> <<>>], [out |-> "A", ins |-> <<"B", "C">>],
     [out |-> "B", ins |-> <<"C">>], [out |-> "B", ins |-> <<"A">>],
     [out |-> "C", ins |-> <<>>], [out |-> "C", ins |-> <<"C">>]}

\* the constructors offered to RegisterNamed
NamedConstructors == {[out |-> "B", ins |-> <<"A">>]}

AssignableToAny(from, to) == TRUE

\* reflect.Type.AssignableTo on the modelled types: identical types, and
\* the concrete type "B" is assignable to the interface type "C"
AssignableTo(from, to) == from = to \/ (from = "B" /\ to = "C")

Singleton == "singleton"
Transient == "transient"
Lifetimes == {Singleton, Transient}

unvisited == "unvisited"
visiting == "visiting"
visited == "visited"

(* ---------------------------------------------------------------------- *)
(* Errors, values                                                         *)
(* ---------------------------------------------------------------------- *)
\* kind: the sentinel the error wraps ("nil" for a nil error);
\* at:   the types the message of the innermost error names;
\* wrap: the types named by the "constructing %s:" / "resolving %s:"
\*       prefixes, outermost first
Err(kind, at) == [kind |-> kind, at |-> at, wrap |-> <<>>]
Nil == Err("nil", <<>>)
Wrap(t, e) == [e EXCEPT !.wrap = <<t>> \o @]

\* the zero reflect.Value
NoVal == [key |-> "", out |-> "", id |-> 0, args |-> <<>>]

EmptyMap == [x \in {} |-> x]
Put(m, k, v) == [x \in DOMAIN m \cup {k} |-> IF x = k THEN v ELSE m[x]]

SeqToSet(s) == {s[i] : i \in 1..Len(s)}

\* the orders in which a range loop may yield the keys S of a map
Orders(S) ==
    {o \in [1..Cardinality(S) -> S] : \A i, j \in 1..Cardinality(S) : o[i] = o[j] => i = j}

VARIABLES
    providers,   \* c.providers: type -> provider
    named,       \* c.named: name -> provider
    singletons,  \* c.singletons: type -> instance
    closers,     \* c.closers
    built,       \* c.built
    shutdown,    \* c.shutdown
    ret,         \* what the last handler returned
    calls,       \* constructor invocations made by the last handler, in order
    ncalls,      \* history: constructor invocations per provider
    nextId,      \* history: identity of the next instance
    failedBuild, \* history: some Build call has returned an error other than ErrAlreadyBuilt
    closed,      \* history: the instances Close was invoked on, in order
    closeErrs,   \* history: the positions in closed whose Close returned an error
    mu,          \* c.mu: the goroutine holding the write lock, those holding the read lock
    threads      \* per goroutine: the handler it runs, where it is in it, its locals

vars == <<providers, named, singletons, closers, built, shutdown, ret, calls,
          ncalls, nextId, failedBuild, closed, closeErrs, mu, threads>>

\* the goroutines calling the container
Procs == {"p1", "p2"}

\* the names offered when goroutines register concurrently
MoreNames == {"n1", "n2"}

Keys == Types \cup Names \cup MoreNames

\* a goroutine that is in no handler
Idle == [pc |-> "idle", op |-> "", x |-> [i |-> 0]]

\* the key a provider is counted under: its name, or its type when unnamed
Key(p) == IF p.name = "" THEN p.outType ELSE p.name

Init ==
    /\ providers = EmptyMap
    /\ named = EmptyMap
    /\ singletons = EmptyMap
    /\ closers = <<>>
    /\ built = FALSE
    /\ shutdown = FALSE
    /\ ret = [op |-> "New", arg |-> "", typ |-> "", err |-> Nil, val |-> NoVal]
    /\ calls = <<>>
    /\ ncalls = [k \in Keys |-> 0]
    /\ nextId = 1
    /\ failedBuild = FALSE
    /\ closed = <<>>
    /\ closeErrs = {}
    /\ mu = [w |-> "", r |-> {}]
    /\ threads = [p \in Procs |-> Idle]

\* arg: the name a ResolveNamed call passed; typ: the type a Resolve or
\* ResolveNamed call requested
Return(op, arg, typ, err, val) ==
    ret' = [op |-> op, arg |-> arg, typ |-> typ, err |-> err, val |-> val]

NoCalls ==
    /\ calls' = <<>>
    /\ UNCHANGED <<ncalls, nextId>>

(* ---------------------------------------------------------------------- *)
(* Register / RegisterNamed                                               *)
(* ---------------------------------------------------------------------- *)
\* register: name = "" for Register
register(name, ctor, lifetime) ==
    LET p == [ins |-> ctor.ins, lifetime |-> lifetime, name |-> name,
              outType |-> ctor.out]
        op == IF name = "" THEN "Register" ELSE "RegisterNamed"
    IN
    IF built THEN
        /\ Return(op, "", "", Err("AlreadyBuilt", <<>>), NoVal)
        /\ UNCHANGED <<providers, named>>
    ELSE IF name # "" THEN
        IF name \in DOMAIN named THEN
            /\ Return(op, "", "", Err("DuplicateProvider", <<>>), NoVal)
            /\ UNCHANGED <<providers, named>>
        ELSE
            /\ named' = Put(named, name, p)
            /\ Return(op, "", "", Nil, NoVal)
            /\ UNCHANGED providers
    ELSE
        IF ctor.out \in DOMAIN providers THEN
            /\ Return(op, "", "", Err("DuplicateProvider", <<>>), NoVal)
            /\ UNCHANGED <<providers, named>>
        ELSE
            /\ providers' = Put(providers, ctor.out, p)
            /\ Return(op, "", "", Nil, NoVal)
            /\ UNCHANGED named

Register ==
    /\ \E ctor \in Constructors, lifetime \in Lifetimes :
          register("", ctor, lifetime)
    /\ NoCalls
    /\ UNCHANGED <<singletons, closers, built, shutdown, failedBuild, closed, closeErrs,
                   mu, threads>>

\* RegisterNamed, lines 84-87: the empty name is rejected before register
RegisterNamed ==
    /\ \E name \in Names \cup {""}, ctor \in NamedConstructors, lifetime \in Lifetimes :
          IF name = "" THEN
              /\ Return("RegisterNamed", "", "", Err("EmptyName", <<>>), NoVal)
              /\ UNCHANGED <<providers, named>>
          ELSE
              register(name, ctor, lifetime)
    /\ NoCalls
    /\ UNCHANGED <<singletons, closers, built, shutdown, failedBuild, closed, closeErrs,
                   mu, threads>>

(* ---------------------------------------------------------------------- *)
(* construct                                                              *)
(* ---------------------------------------------------------------------- *)
\* the constructors that return the instance they are given: the
\* interface type C is bound to the concrete type B by
\* func(b *B) C { return b }
Binders == {[out |-> "C", ins |-> <<"B">>]}

\* construct, line 130: the result of the call is the first argument
returnsInput(p) == [out |-> p.outType, ins |-> p.ins] \in Binders

\* cache: c.singletons as the handler sees it.
\* st = [id, calls]: the identity of the next instance and the constructor
\* calls made so far by the running handler.
\* failAt: the call of the handler (counted from 1) whose constructor
\* returns a non-nil error; 0 when none does.
RECURSIVE construct(_, _, _, _)
RECURSIVE constructArgs(_, _, _, _, _, _)

constructArgsNoCache(ins, i, args, cache, st, failAt) ==
    IF i > Len(ins) THEN [err |-> Nil, args |-> args, st |-> st]
    ELSE IF ins[i] \notin DOMAIN providers THEN
        [err |-> Err("ProviderNotFound", <<ins[i]>>), args |-> args, st |-> st]
    ELSE
        LET r == construct(providers[ins[i]], cache, st, failAt) IN
        IF r.err.kind # "nil" THEN
            [err |-> Wrap(ins[i], r.err), args |-> args, st |-> r.st]
        ELSE
            constructArgs(ins, i + 1, Append(args, r.val), cache, r.st, failAt)

constructArgsShared(ins, i, args, cache, st, failAt) ==
    IF i > Len(ins) THEN [err |-> Nil, args |-> args, st |-> st]
    ELSE
        LET depType == ins[i]
            made == {k \in 1..Len(st.calls) : st.calls[k].key = depType /\ st.calls[k].ok}
        IN
        IF depType \in DOMAIN cache THEN
            constructArgs(ins, i + 1, Append(args, cache[depType]), cache, st, failAt)
        ELSE IF made # {} THEN
            LET k == CHOOSE j \in made : TRUE IN
            constructArgs(ins, i + 1,
                          Append(args, [key |-> depType, out |-> depType,
                                        id |-> nextId + k - 1,
                                        args |-> st.calls[k].args]),
                          cache, st, failAt)
        ELSE IF depType \notin DOMAIN providers THEN
            [err |-> Err("ProviderNotFound", <<depType>>), args |-> args, st |-> st]
        ELSE
            LET r == construct(providers[depType], cache, st, failAt) IN
            IF r.err.kind # "nil" THEN
                [err |-> Wrap(depType, r.err), args |-> args, st |-> r.st]
            ELSE
                constructArgs(ins, i + 1, Append(args, r.val), cache, r.st, failAt)

\* the loop of construct over the inputs i..NumIn of the constructor
constructArgs(ins, i, args, cache, st, failAt) ==
    IF i > Len(ins) THEN [err |-> Nil, args |-> args, st |-> st]
    ELSE
        LET depType == ins[i] IN
        IF depType \in DOMAIN cache THEN
            constructArgs(ins, i + 1, Append(args, cache[depType]), cache, st, failAt)
        ELSE IF depType \notin DOMAIN providers THEN
            [err |-> Err("ProviderNotFound", <<depType>>), args |-> args, st |-> st]
        ELSE
            LET r == construct(providers[depType], cache, st, failAt) IN
            IF r.err.kind # "nil" THEN
                [err |-> Wrap(depType, r.err), args |-> args, st |-> r.st]
            ELSE
                constructArgs(ins, i + 1, Append(args, r.val), cache, r.st, failAt)

construct(p, cache, st, failAt) ==
    LET a == constructArgs(p.ins, 1, <<>>, cache, st, failAt) IN
    IF a.err.kind # "nil" THEN [err |-> a.err, val |-> NoVal, st |-> a.st]
    ELSE
        LET k == Len(a.st.calls) + 1
            ok == k # failAt
            st2 == [id |-> a.st.id + 1,
                    calls |-> Append(a.st.calls,
                                     [key |-> Key(p), out |-> p.outType,
                                      args |-> a.args, ok |-> ok,
                                      cache |-> cache])]
        IN
        IF ~ok THEN
            [err |-> Err("ConstructorFailed", <<>>), val |-> NoVal, st |-> st2]
        ELSE
            [err |-> Nil,
             val |-> IF returnsInput(p) THEN a.args[1]
                     ELSE [key |-> Key(p), out |-> p.outType, id |-> a.st.id,
                           args |-> a.args],
             st |-> st2]

St0 == [id |-> nextId, calls |-> <<>>]

\* the choices of failAt, given the calls cs the handler makes when no
\* constructor fails: none, or a call of a constructor that can fail
FailChoices(cs) == {0} \cup {k \in 1..Len(cs) : cs[k].out \in FallibleTypes}

CountKey(cs, key) == Cardinality({i \in 1..Len(cs) : cs[i].key = key})

\* bookkeeping of the constructor calls cs made by a handler
Record(cs) ==
    /\ nextId + Len(cs) <= MaxCalls + 1
    /\ calls' = cs
    /\ ncalls' = [key \in Keys |-> ncalls[key] + CountKey(cs, key)]
    /\ nextId' = nextId + Len(cs)

(* ---------------------------------------------------------------------- *)
(* Build                                                                  *)
(* ---------------------------------------------------------------------- *)
\* b = [states, singletons, closers, st, err, trail]: Build's local states
\* map, the fields of the container Build writes, the constructor calls
\* made so far, the error that made the traversal return (Nil while it
\* runs), and the types tagged visiting so far, in order
circularErrorNoStack(t, stack) == Err("CircularDependency", <<t>>)

\* circularError: the chain is the stack followed by t
circularError(t, stack) == Err("CircularDependency", Append(stack, t))

RECURSIVE buildResolve(_, _, _, _)
RECURSIVE buildInputs(_, _, _, _, _)

isSingletonAlways(p) == TRUE

\* buildResolve, line 207: p.lifetime == Singleton
isSingleton(p) == p.lifetime = Singleton

cacheSingletonDropped(b, t, instance) == b

\* buildResolve, lines 212-216: the instance is cached under its type and,
\* when it is an io.Closer, appended to c.closers
cacheSingleton(b, t, instance) ==
    [b EXCEPT !.singletons = Put(b.singletons, t, instance),
              !.closers = IF instance.out \in ClosableTypes
                          THEN Append(b.closers, instance)
                          ELSE b.closers]

doneNever(b, t) == FALSE

\* buildResolve, lines 188-189: the type is tagged visited
done(b, t) == b.states[t] = visited

\* buildResolve, lines 201-205: the loop over the inputs i..NumIn
buildInputs(ins, i, b, stack, failAt) ==
    IF i > Len(ins) \/ b.err.kind # "nil" THEN b
    ELSE buildInputs(ins, i + 1, buildResolve(ins[i], b, stack, failAt), stack, failAt)

buildResolve(t, b, stack, failAt) ==
    IF b.states[t] = visiting THEN [b EXCEPT !.err = circularError(t, stack)]
    ELSE IF done(b, t) THEN b
    ELSE IF t \notin DOMAIN providers THEN
        [b EXCEPT !.err = Err("ProviderNotFound", <<t>>)]
    ELSE
        LET p == providers[t]
            b1 == buildInputs(p.ins, 1,
                              [b EXCEPT !.states[t] = visiting,
                                        !.trail = Append(@, t)],
                              Append(stack, t), failAt)
        IN
        IF b1.err.kind # "nil" THEN b1
        ELSE IF isSingleton(p) THEN
            LET r == construct(p, b1.singletons, b1.st, failAt) IN
            IF r.err.kind # "nil" THEN
                [b1 EXCEPT !.err = Wrap(t, r.err), !.st = r.st]
            ELSE
                [cacheSingleton(b1, t, r.val) EXCEPT !.st = r.st,
                                                     !.states[t] = visited]
        ELSE [b1 EXCEPT !.states[t] = visited]

\* Build, lines 163-169: the range loop over c.providers, which yields the
\* keys in the order `order`, from its i-th key on
RECURSIVE buildRange(_, _, _, _)
buildRange(order, i, b, failAt) ==
    IF i > Len(order) \/ b.err.kind # "nil" THEN b
    ELSE buildRange(order, i + 1, buildResolve(order[i], b, <<>>, failAt), failAt)

B0Tagged ==
    [states |-> [t \in Types |-> IF failedBuild THEN visiting ELSE unvisited],
     singletons |-> singletons, closers |-> closers, st |-> St0, err |-> Nil,
     trail |-> <<>>]

\* Build, line 163: states is a map made by this call; every type reads as
\* unvisited in it
B0 == [states |-> [t \in Types |-> unvisited], singletons |-> singletons,
       closers |-> closers, st |-> St0, err |-> Nil, trail |-> <<>>]

validateNamedProviderSkipped(name, p) == Nil

\* validateNamedProvider: the first input without an unnamed provider
validateNamedProvider(name, p) ==
    LET missing == {i \in 1..Len(p.ins) : p.ins[i] \notin DOMAIN providers} IN
    IF missing = {} THEN Nil
    ELSE LET i == CHOOSE j \in missing : \A m \in missing : j <= m
         IN Err("ProviderNotFound", <<name, p.ins[i]>>)

namedErrorsIgnored == {Nil}

\* the errors Build may return from its loop over c.named, lines 171-175:
\* the error of the first invalid named provider the range loop yields
namedErrors ==
    LET bad == {n \in DOMAIN named : validateNamedProvider(n, named[n]).kind # "nil"}
    IN IF bad = {} THEN {Nil} ELSE {validateNamedProvider(n, named[n]) : n \in bad}

namedCallsEager ==
    IF DOMAIN named = {} THEN <<>>
    ELSE LET n == CHOOSE k \in DOMAIN named : TRUE IN
         <<[key |-> n, out |-> named[n].outType, args |-> <<>>, ok |-> TRUE,
            cache |-> singletons]>>

\* Build, lines 171-175: the loop over c.named calls validateNamedProvider
\* only, which invokes no constructor
namedCalls == <<>>

sealsAlways(e) == TRUE

\* Build, lines 166-177: c.built = true is reached only when no loop returned
\* an error
seals(e) == e.kind = "nil"

sealedNever == FALSE

\* Build, line 159: the read of c.built
sealed == built

Build ==
    /\ IF sealed THEN
           /\ Return("Build", "", "", Err("AlreadyBuilt", <<>>), NoVal)
           /\ NoCalls
           /\ UNCHANGED <<singletons, closers, built, failedBuild>>
       ELSE
           \E order \in Orders(DOMAIN providers) :
              \E failAt \in FailChoices(buildRange(order, 1, B0, 0).st.calls) :
                 LET b == buildRange(order, 1, B0, failAt) IN
                 /\ Record(b.st.calls \o namedCalls)
                 /\ singletons' = b.singletons
                 /\ closers' = b.closers
                 /\ \E e \in (IF b.err.kind # "nil" THEN {b.err} ELSE namedErrors) :
                       /\ Return("Build", "", "", e, NoVal)
                       /\ built' = seals(e)
                       /\ failedBuild' = (failedBuild \/ e.kind # "nil")
    /\ UNCHANGED <<providers, named, shutdown, closed, closeErrs, mu, threads>>

(* ---------------------------------------------------------------------- *)
(* Resolve / ResolveNamed                                                 *)
(* ---------------------------------------------------------------------- *)
cachedNever(t) == FALSE

\* Resolve, line 20: the cache has an instance for t
cached(t) == t \in DOMAIN singletons

ReturnConstructCached(op, arg, typ, p) ==
    IF p.lifetime = Singleton /\ p.outType \in DOMAIN singletons THEN
        /\ Return(op, arg, typ, Nil, singletons[p.outType])
        /\ NoCalls
    ELSE
        \E failAt \in FailChoices(construct(p, singletons, St0, 0).st.calls) :
           LET r == construct(p, singletons, St0, failAt) IN
           /\ Record(r.st.calls)
           /\ Return(op, arg, typ, r.err, r.val)

\* return c.construct(p)
ReturnConstruct(op, arg, typ, p) ==
    \E failAt \in FailChoices(construct(p, singletons, St0, 0).st.calls) :
       LET r == construct(p, singletons, St0, failAt) IN
       /\ Record(r.st.calls)
       /\ Return(op, arg, typ, r.err, r.val)

notBuiltOrShutDown == ~built \/ shutdown

\* Resolve, line 16, and ResolveNamed, line 35: !c.built is all they check
notBuilt == ~built

Resolve ==
    /\ IF notBuilt THEN
           /\ Return("Resolve", "", "", Err("NotBuilt", <<>>), NoVal)
           /\ NoCalls
       ELSE
           \E t \in Types :
              IF cached(t) THEN
                  /\ Return("Resolve", "", t, Nil, singletons[t])
                  /\ NoCalls
              ELSE IF t \notin DOMAIN providers THEN
                  /\ Return("Resolve", "", t, Err("ProviderNotFound", <<t>>), NoVal)
                  /\ NoCalls
              ELSE
                  ReturnConstruct("Resolve", "", t, providers[t])
    /\ UNCHANGED <<providers, named, singletons, closers, built, shutdown,
                   failedBuild, closed, closeErrs, mu, threads>>

ResolveNamed ==
    /\ IF notBuilt THEN
           /\ Return("ResolveNamed", "", "", Err("NotBuilt", <<>>), NoVal)
           /\ NoCalls
       ELSE
           \E name \in Names, t \in Types :
              IF name \notin DOMAIN named THEN
                  /\ Return("ResolveNamed", name, t,
                            Err("ProviderNotFound", <<name>>), NoVal)
                  /\ NoCalls
              ELSE IF ~AssignableTo(named[name].outType, t) THEN
                  /\ Return("ResolveNamed", name, t,
                            Err("TypeMismatch", <<named[name].outType, t>>), NoVal)
                  /\ NoCalls
              ELSE
                  ReturnConstruct("ResolveNamed", name, t, named[name])
    /\ UNCHANGED <<providers, named, singletons, closers, built, shutdown,
                   failedBuild, closed, closeErrs, mu, threads>>

(* ---------------------------------------------------------------------- *)
(* Shutdown                                                               *)
(* ---------------------------------------------------------------------- *)
LastForward(n) == [j \in 1..n |-> closers[j]]

\* the closers c.closers[i] for i from Len down to Len - n + 1
LastReversed(n) == [j \in 1..n |-> closers[Len(closers) + 1 - j]]

RECURSIVE Flatten(_)
Flatten(ss) == IF ss = <<>> THEN <<>> ELSE Head(ss) \o Flatten(Tail(ss))

marksOnSuccess(errs) == errs = <<>>

\* Shutdown, line 260: c.shutdown = true precedes the loop, whatever errs
\* the loop collects
marks(errs) == TRUE

ctxErrDropped(n) == <<>>

\* Shutdown, lines 264-267: ctx.Err() is appended by the iteration that
\* finds ctx done, which is one of the len(c.closers) iterations
ctxErr(n) == IF n < Len(closers) THEN <<"ctx">> ELSE <<>>

joinedFirst(errs) == IF errs = <<>> THEN Nil ELSE Err("Joined", <<errs[1]>>)

\* Shutdown, line 273: errors.Join(errs...) is nil when errs is empty
joined(errs) == IF errs = <<>> THEN Nil ELSE Err("Joined", errs)

rejectedMarked(kind) ==
    /\ Return("Shutdown", "", "", Err(kind, <<>>), NoVal)
    /\ shutdown' = TRUE
    /\ UNCHANGED <<closed, closeErrs>>

\* Shutdown, lines 252-258: the early returns, before c.shutdown = true
rejected(kind) ==
    /\ Return("Shutdown", "", "", Err(kind, <<>>), NoVal)
    /\ UNCHANGED <<shutdown, closed, closeErrs>>

\* Shutdown(ctx): expired tells whether ctx is already done at the call, n
\* is the number of loop iterations at whose start ctx.Err() is still nil,
\* failing the set of those iterations whose Close returns an error
Shutdown ==
    /\ IF ~built THEN
           rejected("NotBuilt")
       ELSE IF shutdown THEN
           rejected("AlreadyShutdown")
       ELSE
           \E expired \in BOOLEAN :
           \E n \in (IF expired THEN {0} ELSE 0..Len(closers)) :
              LET run == LastReversed(n) IN
              \E failing \in SUBSET {j \in 1..n : run[j].out \in CloseErrTypes} :
                 LET errOf == [j \in 1..n |-> IF j \in failing
                                              THEN <<run[j].key>> ELSE <<>>]
                     errs == Flatten(errOf) \o ctxErr(n)
                 IN
                 /\ shutdown' = marks(errs)
                 /\ closed' = closed \o run
                 /\ closeErrs' = closeErrs \cup {Len(closed) + j : j \in failing}
                 /\ Return("Shutdown", IF expired THEN "expired" ELSE "", "",
                           joined(errs), NoVal)
    /\ NoCalls
    /\ UNCHANGED <<providers, named, singletons, closers, built, failedBuild,
                   mu, threads>>

Next ==
    \/ Register
    \/ RegisterNamed
    \/ Build
    \/ Resolve
    \/ ResolveNamed
    \/ Shutdown

Spec == Init /\ [][Next]_vars

(* ---------------------------------------------------------------------- *)
(* The handlers run by concurrent goroutines                              *)
(* ---------------------------------------------------------------------- *)
\* the constructors the goroutines register: A needs nothing, B needs A
SharedConstructors == {[out |-> "A", ins |-> <<>>], [out |-> "B", ins |-> <<"A">>]}

canLockAnyway == TRUE

\* c.mu.Lock() returns: no goroutine holds the write or the read lock
canLock == mu.w = "" /\ mu.r = {}

canRLockAnyway == TRUE

\* c.mu.RLock() returns: no goroutine holds the write lock
canRLock == mu.w = ""

\* constructor invocations per behaviour of the concurrent goroutines
ConcurrentCalls == MaxCalls - 1

\* the handlers stop invoking constructors at that number
Within(cs) == nextId + Len(cs) <= ConcurrentCalls + 1

idle(p) == threads[p].pc = "idle"
at(p, op, pc) == threads[p].op = op /\ threads[p].pc = pc

Enter(p, op, x) == threads' = [threads EXCEPT ![p] = [pc |-> "check", op |-> op, x |-> x]]
Goto(p, pc, x) == threads' = [threads EXCEPT ![p] = [@ EXCEPT !.pc = pc, !.x = x]]

Lock(p) == canLock /\ mu' = [mu EXCEPT !.w = p]
RLock(p) == canRLock /\ mu' = [mu EXCEPT !.r = @ \cup {p}]

\* the deferred c.mu.Unlock() / c.mu.RUnlock() of the handler p returns from
Leave(p) ==
    /\ mu' = [w |-> IF mu.w = p THEN "" ELSE mu.w, r |-> mu.r \ {p}]
    /\ threads' = [threads EXCEPT ![p] = Idle]

\* An argument of a handler is drawn where the handler first reads it.

\* Register: c.mu.Lock()
RegisterCall(p) ==
    /\ idle(p)
    /\ Lock(p)
    /\ Enter(p, "Register", [i |-> 0])
    /\ UNCHANGED <<providers, named, singletons, closers, built, shutdown, ret,
                   calls, ncalls, nextId, failedBuild, closed, closeErrs>>

\* RegisterNamed: the empty name is rejected without taking the lock
RegisterNamedCall(p) ==
    /\ idle(p)
    /\ \/ /\ Return("RegisterNamed", "", "", Err("EmptyName", <<>>), NoVal)
          /\ calls' = <<>>
          /\ UNCHANGED <<mu, threads>>
       \/ /\ Lock(p)
          /\ Enter(p, "RegisterNamed", [i |-> 0])
          /\ UNCHANGED <<ret, calls>>
    /\ UNCHANGED <<providers, named, singletons, closers, built, shutdown,
                   ncalls, nextId, failedBuild, closed, closeErrs>>

\* the registrations a goroutine may ask for
Registrations(op) ==
    IF op = "Register" THEN
        {[name |-> "", ctor |-> c, lifetime |-> l] :
            c \in SharedConstructors, l \in Lifetimes}
    ELSE
        {[name |-> n, ctor |-> c, lifetime |-> Singleton] :
            n \in MoreNames, c \in NamedConstructors}

existsByType(x) ==
    \/ x.ctor.out \in DOMAIN providers
    \/ \E n \in DOMAIN named : n = x.name \/ named[n].outType = x.ctor.out

\* register, lines 128 and 136: the lookup of the name, or of the output type
exists(x) ==
    IF x.name # "" THEN x.name \in DOMAIN named ELSE x.ctor.out \in DOMAIN providers

registerOutcomeUnsealed(x) ==
    IF exists(x) THEN "DuplicateProvider" ELSE "nil"

registerOutcomeOverwrites(x) ==
    IF built THEN "AlreadyBuilt" ELSE "nil"

\* register, lines 94-96 and 127-140: c.built is read before the lookup
registerOutcome(x) ==
    IF built THEN "AlreadyBuilt"
    ELSE IF exists(x) THEN "DuplicateProvider"
    ELSE "nil"

\* register, lines 94-96 and the lookups of lines 128 and 136
RegisterCheck(p) ==
    /\ at(p, "Register", "check") \/ at(p, "RegisterNamed", "check")
    /\ \E x \in Registrations(threads[p].op) :
       IF registerOutcome(x) = "AlreadyBuilt" THEN
           /\ Return(threads[p].op, x.name, x.ctor.out, Err("AlreadyBuilt", <<>>), NoVal)
           /\ calls' = <<>>
           /\ Leave(p)
       ELSE IF registerOutcome(x) = "DuplicateProvider" THEN
           /\ Return(threads[p].op, x.name, x.ctor.out,
                     Err("DuplicateProvider",
                         <<IF x.name # "" THEN x.name ELSE x.ctor.out>>), NoVal)
           /\ calls' = <<>>
           /\ Leave(p)
       ELSE
           /\ Goto(p, "insert", x)
           /\ UNCHANGED <<ret, calls, mu>>
    /\ UNCHANGED <<providers, named, singletons, closers, built, shutdown,
                   ncalls, nextId, failedBuild, closed, closeErrs>>

\* register, lines 131-132 and 139-140
RegisterInsert(p) ==
    /\ at(p, "Register", "insert") \/ at(p, "RegisterNamed", "insert")
    /\ LET x == threads[p].x
           prov == [ins |-> x.ctor.ins, lifetime |-> x.lifetime, name |-> x.name,
                    outType |-> x.ctor.out]
       IN
       /\ IF x.name # "" THEN named' = Put(named, x.name, prov) /\ UNCHANGED providers
          ELSE providers' = Put(providers, x.ctor.out, prov) /\ UNCHANGED named
       /\ Return(threads[p].op, x.name, x.ctor.out, Nil, NoVal)
    /\ calls' = <<>>
    /\ Leave(p)
    /\ UNCHANGED <<singletons, closers, built, shutdown, ncalls, nextId,
                   failedBuild, closed, closeErrs>>

\* Build: c.mu.Lock()
BuildCall(p) ==
    /\ idle(p)
    /\ Lock(p)
    /\ Enter(p, "Build", [i |-> 0])
    /\ UNCHANGED <<providers, named, singletons, closers, built, shutdown, ret,
                   calls, ncalls, nextId, failedBuild, closed, closeErrs>>

\* Build, lines 159-163; the range loop will yield the keys in some order
BuildCheck(p) ==
    /\ at(p, "Build", "check")
    /\ IF sealed THEN
           /\ Return("Build", "", "", Err("AlreadyBuilt", <<>>), NoVal)
           /\ calls' = <<>>
           /\ Leave(p)
       ELSE
           /\ \E order \in Orders(DOMAIN providers) :
                 Goto(p, "visit", [order |-> order, i |-> 1,
                                   states |-> [t \in Types |-> unvisited],
                                   calls |-> <<>>, id0 |-> nextId,
                                   trail |-> <<>>])
           /\ UNCHANGED <<ret, calls, mu>>
    /\ UNCHANGED <<providers, named, singletons, closers, built, shutdown,
                   ncalls, nextId, failedBuild, closed, closeErrs>>

\* Build, lines 165-169: one iteration of the loop over c.providers
BuildVisit(p) ==
    /\ at(p, "Build", "visit")
    /\ LET x == threads[p].x
           b0 == [states |-> x.states, singletons |-> singletons,
                  closers |-> closers, st |-> St0, err |-> Nil, trail |-> x.trail]
       IN
       /\ x.i <= Len(x.order)
       /\ \E failAt \in FailChoices(buildResolve(x.order[x.i], b0, <<>>, 0).st.calls) :
             LET b == buildResolve(x.order[x.i], b0, <<>>, failAt)
                 cs == b.st.calls
             IN
             /\ Within(cs)
             /\ ncalls' = [key \in Keys |-> ncalls[key] + CountKey(cs, key)]
             /\ nextId' = nextId + Len(cs)
             /\ singletons' = b.singletons
             /\ closers' = b.closers
             /\ IF b.err.kind = "nil" THEN
                    /\ Goto(p, "visit", [x EXCEPT !.i = @ + 1, !.states = b.states,
                                                   !.calls = @ \o cs,
                                                   !.trail = b.trail])
                    /\ UNCHANGED <<ret, calls, mu, failedBuild>>
                ELSE
                    /\ Return("Build", "", "", b.err, NoVal)
                    /\ calls' = x.calls \o cs
                    /\ failedBuild' = TRUE
                    /\ Leave(p)
    /\ UNCHANGED <<providers, named, built, shutdown, closed, closeErrs>>

\* Build, lines 171-178: the loop over c.named, then c.built = true
BuildFinish(p) ==
    /\ at(p, "Build", "visit")
    /\ threads[p].x.i > Len(threads[p].x.order)
    /\ \E e \in namedErrors :
          /\ Return("Build", "", "", e, NoVal)
          /\ built' = seals(e)
          /\ failedBuild' = (failedBuild \/ e.kind # "nil")
    /\ calls' = threads[p].x.calls \o namedCalls
    /\ Leave(p)
    /\ UNCHANGED <<providers, named, singletons, closers, shutdown, ncalls,
                   nextId, closed, closeErrs>>

\* Resolve: c.mu.RLock()
ResolveCall(p) ==
    /\ idle(p)
    /\ RLock(p)
    /\ Enter(p, "Resolve", [i |-> 0])
    /\ UNCHANGED <<providers, named, singletons, closers, built, shutdown, ret,
                   calls, ncalls, nextId, failedBuild, closed, closeErrs>>

\* ResolveNamed: c.mu.RLock()
ResolveNamedCall(p) ==
    /\ idle(p)
    /\ RLock(p)
    /\ Enter(p, "ResolveNamed", [i |-> 0])
    /\ UNCHANGED <<providers, named, singletons, closers, built, shutdown, ret,
                   calls, ncalls, nextId, failedBuild, closed, closeErrs>>

\* Resolve, lines 16-18; ResolveNamed, lines 36-38
ResolveCheck(p) ==
    /\ at(p, "Resolve", "check") \/ at(p, "ResolveNamed", "check")
    /\ IF notBuilt THEN
           /\ Return(threads[p].op, "", "", Err("NotBuilt", <<>>), NoVal)
           /\ calls' = <<>>
           /\ Leave(p)
       ELSE
           /\ Goto(p, "body", threads[p].x)
           /\ UNCHANGED <<ret, calls, mu>>
    /\ UNCHANGED <<providers, named, singletons, closers, built, shutdown,
                   ncalls, nextId, failedBuild, closed, closeErrs>>

\* Resolve, lines 20-29
ResolveBody(p) ==
    /\ at(p, "Resolve", "body")
    /\ \E t \in Types :
       IF cached(t) THEN
           /\ Return("Resolve", "", t, Nil, singletons[t])
           /\ NoCalls
       ELSE IF t \notin DOMAIN providers THEN
           /\ Return("Resolve", "", t, Err("ProviderNotFound", <<t>>), NoVal)
           /\ NoCalls
       ELSE
           /\ ReturnConstruct("Resolve", "", t, providers[t])
           /\ Within(calls')
    /\ Leave(p)
    /\ UNCHANGED <<providers, named, singletons, closers, built, shutdown,
                   failedBuild, closed, closeErrs>>

\* ResolveNamed, lines 40-49
ResolveNamedBody(p) ==
    /\ at(p, "ResolveNamed", "body")
    /\ \E name \in MoreNames, t \in Types :
       IF name \notin DOMAIN named THEN
           /\ Return("ResolveNamed", name, t, Err("ProviderNotFound", <<name>>), NoVal)
           /\ NoCalls
       ELSE IF ~AssignableTo(named[name].outType, t) THEN
           /\ Return("ResolveNamed", name, t,
                     Err("TypeMismatch", <<named[name].outType, t>>), NoVal)
           /\ NoCalls
       ELSE
           /\ ReturnConstruct("ResolveNamed", name, t, named[name])
           /\ Within(calls')
    /\ Leave(p)
    /\ UNCHANGED <<providers, named, singletons, closers, built, shutdown,
                   failedBuild, closed, closeErrs>>

\* Shutdown: c.mu.Lock()
ShutdownCall(p) ==
    /\ idle(p)
    /\ Lock(p)
    /\ Enter(p, "Shutdown", [i |-> 0])
    /\ UNCHANGED <<providers, named, singletons, closers, built, shutdown, ret,
                   calls, ncalls, nextId, failedBuild, closed, closeErrs>>

\* Shutdown, lines 252-258
ShutdownCheck(p) ==
    /\ at(p, "Shutdown", "check")
    /\ IF ~built \/ shutdown THEN
           /\ Return("Shutdown", "", "",
                     Err(IF ~built THEN "NotBuilt" ELSE "AlreadyShutdown", <<>>), NoVal)
           /\ calls' = <<>>
           /\ Leave(p)
       ELSE
           /\ Goto(p, "mark", threads[p].x)
           /\ UNCHANGED <<ret, calls, mu>>
    /\ UNCHANGED <<providers, named, singletons, closers, built, shutdown,
                   ncalls, nextId, failedBuild, closed, closeErrs>>

ShutdownMarkForgotten(p) ==
    /\ at(p, "Shutdown", "mark")
    /\ Goto(p, "close", [i |-> Len(closers), errs |-> <<>>, n |-> 0])
    /\ UNCHANGED <<providers, named, singletons, closers, built, shutdown, ret,
                   calls, ncalls, nextId, failedBuild, closed, closeErrs, mu>>

\* Shutdown, lines 260-263: c.shutdown = true, i := len(c.closers) - 1
ShutdownMark(p) ==
    /\ at(p, "Shutdown", "mark")
    /\ shutdown' = TRUE
    /\ Goto(p, "close", [i |-> Len(closers), errs |-> <<>>, n |-> 0])
    /\ UNCHANGED <<providers, named, singletons, closers, built, ret, calls,
                   ncalls, nextId, failedBuild, closed, closeErrs, mu>>

\* Shutdown, lines 263-271: one iteration of the loop; ctx has expired, or
\* Close is invoked and returns nil or an error
ShutdownClose(p) ==
    /\ at(p, "Shutdown", "close")
    /\ LET x == threads[p].x IN
       /\ x.i >= 1
       /\ \/ /\ Goto(p, "finish", [x EXCEPT !.errs = Append(@, "ctx")])
             /\ UNCHANGED <<closed, closeErrs>>
          \/ /\ closed' = Append(closed, closers[x.i])
             /\ \E e \in {<<>>} \cup (IF closers[x.i].out \in CloseErrTypes
                                     THEN {<<closers[x.i].key>>} ELSE {}) :
                   /\ Goto(p, "close", [x EXCEPT !.i = @ - 1, !.errs = @ \o e, !.n = @ + 1])
                   /\ closeErrs' = closeErrs \cup (IF e = <<>> THEN {} ELSE {Len(closed) + 1})
    /\ UNCHANGED <<providers, named, singletons, closers, built, shutdown, ret,
                   calls, ncalls, nextId, failedBuild, mu>>

\* Shutdown, line 273: return errors.Join(errs...)
ShutdownFinish(p) ==
    /\ at(p, "Shutdown", "finish") \/ (at(p, "Shutdown", "close") /\ threads[p].x.i = 0)
    /\ Return("Shutdown", "", "", joined(threads[p].x.errs), NoVal)
    /\ calls' = <<>>
    /\ Leave(p)
    /\ UNCHANGED <<providers, named, singletons, closers, built, shutdown,
                   ncalls, nextId, failedBuild, closed, closeErrs>>

ConcurrentNext ==
    \E p \in Procs :
       \/ RegisterCall(p)
       \/ RegisterNamedCall(p)
       \/ RegisterCheck(p)
       \/ RegisterInsert(p)
       \/ BuildCall(p)
       \/ BuildCheck(p)
       \/ BuildVisit(p)
       \/ BuildFinish(p)
       \/ ResolveCall(p)
       \/ ResolveNamedCall(p)
       \/ ResolveCheck(p)
       \/ ResolveBody(p)
       \/ ResolveNamedBody(p)
       \/ ShutdownCall(p)
       \/ ShutdownCheck(p)
       \/ ShutdownMark(p)
       \/ ShutdownClose(p)
       \/ ShutdownFinish(p)

Concurrent == Init /\ [][ConcurrentNext]_vars

(* ---------------------------------------------------------------------- *)
(* Build, loop iteration by loop iteration, on a registered container     *)
(* ---------------------------------------------------------------------- *)
\* the provider records Register stores for the constructors of Constructors
Records ==
    {[ins |-> c.ins, lifetime |-> l, name |-> "", outType |-> c.out] :
        c \in Constructors, l \in Lifetimes}

\* the contents of c.providers that sequences of Register calls produce:
\* each type has no provider, or one of its constructors under a lifetime
Registered ==
    UNION {{m \in [S -> Records] : \A t \in S : m[t].outType = t} : S \in SUBSET Types}

\* the container after Register calls that were all accepted
InitRegistered ==
    /\ providers \in Registered
    /\ named = EmptyMap
    /\ singletons = EmptyMap
    /\ closers = <<>>
    /\ built = FALSE
    /\ shutdown = FALSE
    /\ ret = [op |-> IF providers = EmptyMap THEN "New" ELSE "Register",
              arg |-> "", typ |-> "", err |-> Nil, val |-> NoVal]
    /\ calls = <<>>
    /\ ncalls = [k \in Keys |-> 0]
    /\ nextId = 1
    /\ failedBuild = FALSE
    /\ closed = <<>>
    /\ closeErrs = {}
    /\ mu = [w |-> "", r |-> {}]
    /\ threads = [p \in Procs |-> Idle]

BuildsNext ==
    \E p \in Procs :
       \/ BuildCall(p)
       \/ BuildCheck(p)
       \/ BuildVisit(p)
       \/ BuildFinish(p)

Builds == InitRegistered /\ [][BuildsNext]_vars

(* ---------------------------------------------------------------------- *)
(* A container with an interface bound to a registered concrete type      *)
(* ---------------------------------------------------------------------- *)
\* the provider records Register stores for the constructors of Binders
BoundRecords ==
    {[ins |-> c.ins, lifetime |-> l, name |-> "", outType |-> c.out] :
        c \in Binders, l \in Lifetimes}

\* the container after accepted Register calls, of constructors of
\* Constructors and of Binders
InitBound ==
    /\ providers \in UNION {{m \in [S -> Records \cup BoundRecords] :
                                \A t \in S : m[t].outType = t} : S \in SUBSET Types}
    /\ named = EmptyMap
    /\ singletons = EmptyMap
    /\ closers = <<>>
    /\ built = FALSE
    /\ shutdown = FALSE
    /\ ret = [op |-> "Register", arg |-> "", typ |-> "", err |-> Nil, val |-> NoVal]
    /\ calls = <<>>
    /\ ncalls = [k \in Keys |-> 0]
    /\ nextId = 1
    /\ failedBuild = FALSE
    /\ closed = <<>>
    /\ closeErrs = {}
    /\ mu = [w |-> "", r |-> {}]
    /\ threads = [p \in Procs |-> Idle]

BindingsNext ==
    \/ Build
    \/ Resolve
    \/ Shutdown

Bindings == InitBound /\ [][BindingsNext]_vars

(* ---------------------------------------------------------------------- *)
(* Registration of arbitrary values                                       *)
(* ---------------------------------------------------------------------- *)
\* a value passed as constructor: typ is its Go type (for a constructor,
\* its first result), kind its reflect.Kind ("invalid" for the zero
\* reflect.Value), outs the types of its results, ins those of its inputs
Value(typ, kind, outs, ins) == [typ |-> typ, kind |-> kind, outs |-> outs, ins |-> ins]

\* the value of a constructor: func(ins...) T, or func(ins...) (T, error)
ValueOf(ctor) ==
    Value(ctor.out, "func",
          IF ctor.out \in FallibleTypes THEN <<ctor.out, "error">> ELSE <<ctor.out>>,
          ctor.ins)

\* values that are no constructor: a string, a function without result,
\* one with three results, one whose second result is no error, and the
\* untyped nil (reflect.ValueOf(nil) is the zero reflect.Value)
NonConstructors ==
    {Value("string", "string", <<>>, <<>>),
     Value("func()", "func", <<>>, <<>>),
     Value("func() (A, B, error)", "func", <<"A", "B", "error">>, <<>>),
     Value("func() (A, B)", "func", <<"A", "B">>, <<>>),
     Value("nil", "invalid", <<>>, <<>>)}

\* register, lines 101-114: the checks of the shape of the constructor
shapeError(v) ==
    IF v.kind # "func" THEN Err("NotFunction", <<>>)
    ELSE IF Len(v.outs) = 0 \/ Len(v.outs) > 2 THEN Err("BadResultCount", <<>>)
    ELSE IF Len(v.outs) = 2 /\ v.outs[2] # "error" THEN Err("SecondNotError", <<>>)
    ELSE Nil

\* register, lines 90-141, on any value.  val.Type() of line 99 panics on
\* the zero reflect.Value: the call ends in the panic, the deferred Unlock
\* releases c.mu, and the caller gets no error value (kind "panic").
registerValue(op, name, v, lifetime) ==
    IF built THEN
        /\ Return(op, name, v.typ, Err("AlreadyBuilt", <<>>), NoVal)
        /\ UNCHANGED <<providers, named>>
    ELSE IF v.kind = "invalid" THEN
        /\ Return(op, name, v.typ, Err("panic", <<>>), NoVal)
        /\ UNCHANGED <<providers, named>>
    ELSE IF shapeError(v) # Nil THEN
        /\ Return(op, name, v.typ, shapeError(v), NoVal)
        /\ UNCHANGED <<providers, named>>
    ELSE
        LET x == [name |-> name, ctor |-> [out |-> v.outs[1], ins |-> v.ins]]
            prov == [ins |-> v.ins, lifetime |-> lifetime, name |-> name,
                     outType |-> v.outs[1]]
        IN
        IF exists(x) THEN
            /\ Return(op, name, v.typ,
                      Err("DuplicateProvider", <<IF name # "" THEN name ELSE v.outs[1]>>),
                      NoVal)
            /\ UNCHANGED <<providers, named>>
        ELSE
            /\ IF name # "" THEN named' = Put(named, name, prov) /\ UNCHANGED providers
               ELSE providers' = Put(providers, v.outs[1], prov) /\ UNCHANGED named
            /\ Return(op, name, v.typ, Nil, NoVal)

\* Register, lines 80-82, with any value
RegisterValue ==
    /\ \E v \in {ValueOf(c) : c \in Constructors} \cup NonConstructors,
          lifetime \in Lifetimes :
          registerValue("Register", "", v, lifetime)
    /\ NoCalls
    /\ UNCHANGED <<singletons, closers, built, shutdown, failedBuild, closed, closeErrs,
                   mu, threads>>

\* RegisterNamed, lines 84-89, with any value
RegisterNamedValue ==
    /\ \E name \in Names \cup {""},
          v \in {ValueOf(c) : c \in NamedConstructors} \cup NonConstructors,
          lifetime \in Lifetimes :
          IF name = "" THEN
              /\ Return("RegisterNamed", "", v.typ, Err("EmptyName", <<>>), NoVal)
              /\ UNCHANGED <<providers, named>>
          ELSE
              registerValue("RegisterNamed", name, v, lifetime)
    /\ NoCalls
    /\ UNCHANGED <<singletons, closers, built, shutdown, failedBuild, closed, closeErrs,
                   mu, threads>>

ShapesNext ==
    \/ RegisterValue
    \/ RegisterNamedValue
    \/ Build

Shapes == Init /\ [][ShapesNext]_vars

(* ---------------------------------------------------------------------- *)
(* The registered dependency graph                                        *)
(* ---------------------------------------------------------------------- *)
SingletonTypes == {t \in DOMAIN providers : providers[t].lifetime = Singleton}
TransientTypes == {t \in DOMAIN providers : providers[t].lifetime = Transient}

\* the declared inputs of the unnamed provider of t
Deps(t) == IF t \in DOMAIN providers THEN SeqToSet(providers[t].ins) ELSE {}

\* the types reachable from the types S along declared inputs, S included
RECURSIVE Closure(_)
Closure(S) ==
    LET N == S \cup UNION {Deps(t) : t \in S} IN
    IF N = S THEN S ELSE Closure(N)

\* what the unnamed provider of t depends on, directly or transitively
Reach(t) == Closure(Deps(t))

OnCycle(t) == t \in DOMAIN providers /\ t \in Reach(t)
HasCycle == \E t \in Types : OnCycle(t)

\* every declared input of every unnamed provider has an unnamed provider
UnnamedSatisfied == \A t \in DOMAIN providers : Deps(t) \subseteq DOMAIN providers

\* every declared input of every named provider has an unnamed provider
NamedSatisfied ==
    \A n \in DOMAIN named : SeqToSet(named[n].ins) \subseteq DOMAIN providers

AllOk(cs) == \A i \in 1..Len(cs) : cs[i].ok

\* a step of Build that ran the traversal (c.built was false)
BuildRan == ret'.op = "Build" /\ ~built

(* ---------------------------------------------------------------------- *)
(* C1                                                                     *)
(* ---------------------------------------------------------------------- *)
\* C1: a Build on a fresh container (no earlier Build failed) whose unnamed
\* providers are acyclic, where every declared input of every unnamed and
\* named provider has an unnamed provider and no constructor returns an
\* error, returns nil; afterwards the singleton cache holds, for exactly the
\* unnamed Singleton types, the one instance their constructor was invoked
\* for, and no entry for a Transient or a named provider (no constructor of
\* a named provider is invoked).
C1_FreshBuildSucceeds ==
    [][(/\ BuildRan
        /\ ~failedBuild
        /\ ~HasCycle /\ UnnamedSatisfied /\ NamedSatisfied
        /\ AllOk(calls'))
       => (/\ ret'.err.kind = "nil"
           /\ built'
           /\ DOMAIN singletons' = SingletonTypes
           /\ \A t \in SingletonTypes :
                 /\ singletons'[t].key = t
                 /\ ncalls'[t] = 1
                 /\ CountKey(calls', t) = 1
           /\ \A n \in DOMAIN named : ncalls'[n] = 0)]_vars

\* a successful first Build of two singletons, a transient and a named provider
C1_Witness ==
    /\ ret.op = "Build" /\ ret.err.kind = "nil" /\ ~failedBuild
    /\ Cardinality(SingletonTypes) = 2
    /\ TransientTypes # {}
    /\ DOMAIN named # {}
    /\ DOMAIN singletons = SingletonTypes

(* ---------------------------------------------------------------------- *)
(* C2                                                                     *)
(* ---------------------------------------------------------------------- *)
\* C2: over every sequence of calls, the constructor of each unnamed
\* Singleton provider is invoked at most once in total, and exactly once if
\* some Build succeeded.
C2_SingletonConstructedOnce ==
    \A t \in SingletonTypes :
       /\ ncalls[t] <= 1
       /\ built => ncalls[t] = 1

(* ---------------------------------------------------------------------- *)
(* C3                                                                     *)
(* ---------------------------------------------------------------------- *)
\* C3: during Build, whenever a constructor is invoked (that of a Singleton,
\* or that of a Transient on the way to one), every input of a Singleton
\* type is in the singleton cache at that moment, the cached instance is
\* the value passed, and it was constructed earlier in the same Build:
\* singletons are constructed in a topological order of the graph.
C3_DependenciesFirst ==
    [][BuildRan =>
        \A k \in 1..Len(calls') :
           LET c == calls'[k]
               ins == providers[c.key].ins
           IN \A i \in 1..Len(ins) :
                 ins[i] \in SingletonTypes =>
                    /\ ins[i] \in DOMAIN c.cache
                    /\ c.args[i] = c.cache[ins[i]]
                    /\ \E j \in 1..(k - 1) :
                          /\ calls'[j].key = ins[i]
                          /\ calls'[j].ok
                          /\ c.args[i].id = nextId + j - 1]_vars

\* Build constructed the Singleton A from a Transient B, itself built from
\* the cached Singleton C, and from that same C
C3_Witness ==
    /\ ret.op = "Build" /\ ret.err.kind = "nil"
    /\ "B" \in TransientTypes /\ {"A", "C"} \subseteq SingletonTypes
    /\ \E k \in 1..Len(calls) :
          /\ calls[k].key = "A"
          /\ Len(calls[k].args) = 2
          /\ calls[k].args[1].key = "B"
          /\ calls[k].args[1].args[1] = singletons["C"]
          /\ calls[k].args[2] = singletons["C"]

(* ---------------------------------------------------------------------- *)
(* C4                                                                     *)
(* ---------------------------------------------------------------------- *)
BuildErrorKinds == {"CircularDependency", "ProviderNotFound", "ConstructorFailed"}

\* the chain ends in a cycle of declared inputs: its last type occurs
\* earlier in it and every type is a declared input of the one before it
IsCycleChain(ch) ==
    /\ Len(ch) >= 2
    /\ \E j \in 1..(Len(ch) - 1) : ch[j] = ch[Len(ch)]
    /\ \A i \in 1..(Len(ch) - 1) : ch[i + 1] \in Deps(ch[i])

\* C4 as stated: whenever the unnamed providers contain a dependency cycle,
\* Build fails with CircularDependency and the chain lists every type that
\* lies on a cycle.
C4_CycleAlwaysReported ==
    (ret.op = "Build" /\ HasCycle) =>
       /\ ret.err.kind = "CircularDependency"
       /\ {t \in Types : OnCycle(t)} \subseteq SeqToSet(ret.err.at)

\* C4 as amended: whenever the unnamed providers contain a dependency
\* cycle, Build fails; it fails with CircularDependency when every declared
\* input of every unnamed provider has an unnamed provider and no
\* constructor returned an error; and the chain reported with
\* CircularDependency ends in a cycle all of whose types it lists.
C4_CycleFailsBuild ==
    (ret.op = "Build" /\ HasCycle) =>
       /\ ret.err.kind \in BuildErrorKinds
       /\ ~built
       /\ (UnnamedSatisfied /\ AllOk(calls)) => ret.err.kind = "CircularDependency"
       /\ ret.err.kind = "CircularDependency" => IsCycleChain(ret.err.at)

\* Build reported the cycle A -> B -> A, which passes through a Transient
C4_Witness ==
    /\ ret.op = "Build" /\ ret.err.kind = "CircularDependency"
    /\ Len(ret.err.at) = 3
    /\ SeqToSet(ret.err.at) = {"A", "B"}
    /\ SeqToSet(ret.err.at) \cap TransientTypes # {}

(* ---------------------------------------------------------------------- *)
(* C5                                                                     *)
(* ---------------------------------------------------------------------- *)
\* some provider depends, directly or transitively, on a type that has no
\* unnamed provider (the provider that declares the missing input is
\* itself a provider)
MissingDependency == ~UnnamedSatisfied \/ ~NamedSatisfied

\* C5 as stated: whenever some provider depends on a type without an
\* unnamed provider, Build fails with ProviderNotFound.
C5_MissingAlwaysReported ==
    (ret.op = "Build" /\ MissingDependency) => ret.err.kind = "ProviderNotFound"

\* C5 as amended: whenever some provider depends on a type without an
\* unnamed provider, Build fails; it fails with ProviderNotFound when the
\* unnamed providers contain no cycle and no constructor returned an error,
\* and the type ProviderNotFound names has no unnamed provider.
C5_MissingFailsBuild ==
    (ret.op = "Build" /\ MissingDependency) =>
       /\ ret.err.kind \in BuildErrorKinds
       /\ ~built
       /\ (~HasCycle /\ AllOk(calls)) => ret.err.kind = "ProviderNotFound"
       /\ ret.err.kind = "ProviderNotFound" =>
             ret.err.at[Len(ret.err.at)] \notin DOMAIN providers

\* Build rejected a named provider whose input has no unnamed provider,
\* after the unnamed providers passed
C5_Witness ==
    /\ ret.op = "Build" /\ ret.err.kind = "ProviderNotFound"
    /\ Len(ret.err.at) = 2
    /\ ret.err.at[1] \in DOMAIN named
    /\ DOMAIN providers # {}
    /\ UnnamedSatisfied /\ ~NamedSatisfied

(* ---------------------------------------------------------------------- *)
(* C6                                                                     *)
(* ---------------------------------------------------------------------- *)
\* C6: after a successful Build, Resolve of a type that has an unnamed
\* provider, and ResolveNamed of a registered name with a requested type
\* the provider's output is assignable to, fail with nothing but the error
\* a constructor returned; and whenever the container is built, every
\* declared input has an unnamed provider and the graph has no cycle.
C6_ResolveOnlyFailsInConstructor ==
    built =>
       /\ ~HasCycle /\ UnnamedSatisfied /\ NamedSatisfied
       /\ (ret.op = "Resolve" /\ ret.typ \in DOMAIN providers) =>
             ret.err.kind \in {"nil", "ConstructorFailed"}
       /\ (/\ ret.op = "ResolveNamed"
           /\ ret.arg \in DOMAIN named
           /\ AssignableTo(named[ret.arg].outType, ret.typ)) =>
             ret.err.kind \in {"nil", "ConstructorFailed"}

\* ResolveNamed constructed a named provider from the unnamed Transient A
C6_Witness ==
    /\ built /\ ret.op = "ResolveNamed" /\ ret.err.kind = "nil"
    /\ ret.arg \in DOMAIN named
    /\ "A" \in TransientTypes
    /\ Len(calls) >= 2

(* ---------------------------------------------------------------------- *)
(* C7                                                                     *)
(* ---------------------------------------------------------------------- *)
\* the provider whose constructor a call invoked
ProviderOf(key) == IF key \in Types THEN providers[key] ELSE named[key]

\* every input of a Singleton type of every call in cs was passed the
\* instance the cache holds for that type
SingletonInputsShared(cs) ==
    \A k \in 1..Len(cs) :
       LET ins == ProviderOf(cs[k].key).ins IN
       \A i \in 1..Len(ins) :
          ins[i] \in SingletonTypes => cs[k].args[i] = singletons[ins[i]]

\* C7: after a successful Build every unnamed Singleton type T has one
\* instance, constructed by that Build and never replaced; every Resolve(T)
\* returns it, and every constructor invoked by a Resolve or ResolveNamed
\* call (that of a Transient or of a named provider) is passed it for each
\* of its inputs of type T.
C7_SingletonShared ==
    /\ [](built =>
            /\ DOMAIN singletons = SingletonTypes
            /\ (ret.op = "Resolve" /\ ret.typ \in SingletonTypes) =>
                  (ret.err.kind = "nil" /\ ret.val = singletons[ret.typ])
            /\ ret.op \in {"Resolve", "ResolveNamed"} => SingletonInputsShared(calls))
    /\ [][(built => singletons' = singletons)
          /\ ((BuildRan /\ built') =>
                 \A t \in SingletonTypes :
                    /\ singletons'[t].key = t
                    /\ singletons'[t].id >= nextId)]_vars

\* Resolve constructed a Transient from the cached instances of two Singletons
C7_Witness ==
    /\ built /\ ret.op = "Resolve" /\ ret.err.kind = "nil"
    /\ ret.typ \in TransientTypes
    /\ {"B", "C"} \subseteq SingletonTypes
    /\ ret.val.args = <<singletons["B"], singletons["C"]>>

(* ---------------------------------------------------------------------- *)
(* C8                                                                     *)
(* ---------------------------------------------------------------------- *)
\* every instance the container holds or has returned is older than the
\* next instance
InstancesOlder ==
    /\ ret.val.id < nextId
    /\ \A t \in DOMAIN singletons : singletons[t].id < nextId

\* C8 as stated: after a successful Build, each Resolve(T) of an unnamed
\* Transient type T invokes T's constructor exactly once, and the instance
\* it returns is the newest instance there is, newer than every instance of
\* the cache.
C8_TransientAlwaysFresh ==
    (built /\ ret.op = "Resolve" /\ ret.typ \in TransientTypes) =>
       /\ CountKey(calls, ret.typ) = 1
       /\ ret.err.kind = "nil" =>
             /\ ret.val.key = ret.typ
             /\ ret.val.id = nextId - 1
             /\ \A t \in DOMAIN singletons : singletons[t].id < ret.val.id

\* C8 as amended: after a successful Build, each Resolve(T) of an unnamed
\* Transient type T invokes T's constructor at most once, and exactly once
\* unless the constructor of a required input returned an error; it returns
\* nil exactly when no constructor returned an error, and then its result is
\* an instance of T newer than every instance held or returned before; the
\* singleton cache is left as it was.
C8_TransientFresh ==
    /\ []InstancesOlder
    /\ [][(built /\ ret'.op = "Resolve" /\ ret'.typ \in TransientTypes) =>
            /\ CountKey(calls', ret'.typ) <= 1
            /\ (\A k \in 1..Len(calls') : calls'[k].key # ret'.typ => calls'[k].ok)
                  => CountKey(calls', ret'.typ) = 1
            /\ (ret'.err.kind = "nil") = AllOk(calls')
            /\ ret'.err.kind = "nil" =>
                  /\ CountKey(calls', ret'.typ) = 1
                  /\ ret'.val.key = ret'.typ
                  /\ ret'.val.id >= nextId
            /\ singletons' = singletons]_vars

\* the second successful Resolve of a Transient type
C8_Witness ==
    /\ built /\ ret.op = "Resolve" /\ ret.err.kind = "nil"
    /\ ret.typ \in TransientTypes
    /\ ncalls[ret.typ] = 2
    /\ Len(calls) = 1

(* ---------------------------------------------------------------------- *)
(* C9                                                                     *)
(* ---------------------------------------------------------------------- *)
\* the places where T is a declared input of an unnamed provider
Requests(T) ==
    {<<t, i>> \in (DOMAIN providers) \X (1..2) :
        i <= Len(providers[t].ins) /\ providers[t].ins[i] = T}

\* the Singleton S takes the Transient T as its i-th input and
\* no other provider, unnamed or named, has an input of type T
Captures(S, i, T) ==
    /\ S \in SingletonTypes /\ T \in TransientTypes
    /\ Requests(T) = {<<S, i>>}
    /\ \A n \in DOMAIN named : T \notin SeqToSet(named[n].ins)

\* C9: when the Singleton S captures the Transient T, the first Build, if
\* it succeeds, invokes the constructors of S and T once each and caches
\* an S holding that T; afterwards every Resolve(S) returns the cached S
\* and no call other than Resolve(T) invokes the constructor of T again.
C9_CapturedTransient ==
    [][(built \/ BuildRan) =>
         \A S \in SingletonTypes : \A i \in 1..Len(providers[S].ins) :
            LET T == providers[S].ins[i] IN
            Captures(S, i, T) =>
               /\ (BuildRan /\ ~failedBuild /\ built') =>
                     /\ ncalls'[T] = 1 /\ ncalls'[S] = 1
                     /\ S \in DOMAIN singletons'
                     /\ singletons'[S].args[i].key = T
               /\ (built /\ ret'.op = "Resolve" /\ ret'.typ = S) =>
                     /\ ret'.err.kind = "nil"
                     /\ ret'.val = singletons[S]
                     /\ singletons' = singletons
               /\ (built /\ ~(ret'.op = "Resolve" /\ ret'.typ = T)) =>
                     ncalls'[T] = ncalls[T]]_vars

\* after the first Build, Resolve returned the Singleton B holding the one
\* instance of the Transient C
C9_Witness ==
    /\ built /\ ~failedBuild
    /\ Captures("B", 1, "C")
    /\ ret.op = "Resolve" /\ ret.typ = "B"
    /\ ret.val.args[1].key = "C"
    /\ ncalls["C"] = 1

(* ---------------------------------------------------------------------- *)
(* C10                                                                    *)
(* ---------------------------------------------------------------------- *)
\* C10 as stated: after a successful Build, every ResolveNamed call for a
\* registered name invokes the named provider's constructor, and the
\* instance it returns is the newest instance there is, newer than every
\* instance of the cache.
C10_NamedAlwaysFresh ==
    (built /\ ret.op = "ResolveNamed" /\ ret.arg \in DOMAIN named) =>
       /\ CountKey(calls, ret.arg) = 1
       /\ ret.err.kind = "nil" =>
             /\ ret.val.key = ret.arg
             /\ ret.val.id = nextId - 1
             /\ \A t \in DOMAIN singletons : singletons[t].id < ret.val.id

\* C10 as amended: after a successful Build, a ResolveNamed call for a
\* registered name whose output type is not assignable to the requested
\* type invokes no constructor; any other invokes the named provider's
\* constructor once, unless the constructor of a required input returned an
\* error, and, when no constructor returned an error, returns a new
\* instance of the named provider, whatever its lifetime; no instance of a
\* named provider is ever in the singleton cache, which the call leaves as
\* it was.
C10_NamedFresh ==
    /\ [](\A t \in DOMAIN singletons : singletons[t].key \notin Names)
    /\ [][(built /\ ret'.op = "ResolveNamed" /\ ret'.arg \in DOMAIN named) =>
            /\ singletons' = singletons
            /\ IF ~AssignableTo(named[ret'.arg].outType, ret'.typ) THEN
                   ret'.err.kind = "TypeMismatch" /\ calls' = <<>>
               ELSE
                   /\ CountKey(calls', ret'.arg) <= 1
                   /\ (\A k \in 1..Len(calls') :
                          calls'[k].key # ret'.arg => calls'[k].ok)
                         => CountKey(calls', ret'.arg) = 1
                   /\ (ret'.err.kind = "nil") = AllOk(calls')
                   /\ ret'.err.kind = "nil" =>
                         /\ ret'.val.key = ret'.arg
                         /\ ret'.val.id >= nextId]_vars

\* the second successful ResolveNamed of a provider registered as Singleton,
\* while the cache holds an instance of its output type
C10_Witness ==
    /\ built /\ ret.op = "ResolveNamed" /\ ret.err.kind = "nil"
    /\ ret.arg \in DOMAIN named
    /\ named[ret.arg].lifetime = Singleton
    /\ named[ret.arg].outType \in DOMAIN singletons
    /\ ncalls[ret.arg] = 2

(* ---------------------------------------------------------------------- *)
(* C11                                                                    *)
(* ---------------------------------------------------------------------- *)
\* the goroutine p returns from a handler of ops in this step
ReturnsFrom(p, ops) ==
    /\ threads[p].op \in ops
    /\ threads[p].pc # "idle"
    /\ threads'[p].pc = "idle"

\* the instance v holds, for every input its constructor declares, a
\* populated instance of that input
RECURSIVE Populated(_)
Populated(v) ==
    /\ v.key \in DOMAIN providers \cup DOMAIN named
    /\ LET ins == ProviderOf(v.key).ins IN
       /\ v.out = ProviderOf(v.key).outType
       /\ Len(v.args) = Len(ins)
       /\ \A i \in 1..Len(ins) : v.args[i].key = ins[i] /\ Populated(v.args[i])

\* the result of a Resolve or ResolveNamed call is consistent: a Singleton
\* is the cached instance, and every result has all its inputs populated
ConsistentResult(r) ==
    /\ r.err.kind = "nil"
    /\ Populated(r.val)
    /\ r.val.key = (IF r.op = "Resolve" THEN r.typ ELSE r.arg)
    /\ (r.op = "Resolve" /\ r.typ \in SingletonTypes) =>
          (r.typ \in DOMAIN singletons /\ r.val = singletons[r.typ])

\* C11 as stated: on a sealed container, in every interleaving of two
\* goroutines, every Resolve or ResolveNamed call in which no constructor
\* fails returns without error, a Singleton result being the cached
\* instance and every result having all its inputs populated.
C11_EveryResolveSucceeds ==
    [][\A p \in Procs :
          (ReturnsFrom(p, {"Resolve", "ResolveNamed"}) /\ built /\ AllOk(calls'))
             => ConsistentResult(ret')]_vars

\* C11 as amended: on a sealed container, in every interleaving of two
\* goroutines, every call in which no constructor fails of Resolve for a
\* type that has an unnamed provider, or of ResolveNamed for a registered
\* name and a type its output type is assignable to, returns without error,
\* a Singleton result being the cached instance and every result having all
\* its inputs populated.
C11_ConcurrentResolve ==
    [][\A p \in Procs :
          ((ReturnsFrom(p, {"Resolve", "ResolveNamed"}) /\ built /\ AllOk(calls'))
           /\ (IF ret'.op = "Resolve" THEN ret'.typ \in DOMAIN providers
               ELSE /\ ret'.arg \in DOMAIN named
                    /\ AssignableTo(named[ret'.arg].outType, ret'.typ)))
             => ConsistentResult(ret')]_vars

\* both goroutines are inside Resolve / ResolveNamed at once, holding the
\* read lock, after a Resolve of a Transient that has an input returned an
\* instance
C11_Witness ==
    /\ built /\ ret.op = "Resolve" /\ ret.err.kind = "nil"
    /\ ret.typ \in TransientTypes
    /\ Len(ret.val.args) = 1
    /\ mu.r = Procs
    /\ \E p, q \in Procs : at(p, "Resolve", "body") /\ at(q, "ResolveNamed", "body")

(* ---------------------------------------------------------------------- *)
(* C12                                                                    *)
(* ---------------------------------------------------------------------- *)
\* some goroutine is inside the loops of Build
Building == \E q \in Procs : at(q, "Build", "visit")

\* C12: in every interleaving of Build with Resolve / ResolveNamed, a
\* Resolve or ResolveNamed call either fails with NotBuilt or returns while
\* the container is sealed, no Build is in its loops, the cache holds an
\* instance for exactly the unnamed Singletons, and its result is taken from
\* that cache (a Singleton is the cached instance; every Singleton input of
\* a constructor it invoked is the cached instance).  The cache of a sealed
\* container never changes, and it holds only instances constructed by the
\* Build call that sealed it: none that an earlier, failed Build made.
C12_NoPartialCache ==
    [][/\ \A p \in Procs :
             ReturnsFrom(p, {"Resolve", "ResolveNamed"}) =>
                \/ ret'.err.kind = "NotBuilt"
                \/ /\ built /\ ~Building
                   /\ DOMAIN singletons = SingletonTypes
                   /\ (ret'.op = "Resolve" /\ ret'.typ \in SingletonTypes) =>
                         (ret'.err.kind = "nil" /\ ret'.val = singletons[ret'.typ])
                   /\ SingletonInputsShared(calls')
       /\ built => (built' /\ singletons' = singletons)
       /\ \A p \in Procs :
             (~built /\ built' /\ ReturnsFrom(p, {"Build"})) =>
                /\ DOMAIN singletons' = SingletonTypes
                /\ \A t \in SingletonTypes :
                      /\ singletons'[t].key = t
                      /\ singletons'[t].id >= threads[p].x.id0]_vars

\* after a Build that failed with A constructed and a Build that succeeded,
\* Resolve returned the A the second Build constructed
C12_Witness ==
    /\ built /\ failedBuild
    /\ ret.op = "Resolve" /\ ret.err.kind = "nil"
    /\ ret.typ = "A" /\ "A" \in SingletonTypes
    /\ ncalls["A"] = 2
    /\ ret.val.id > 1

(* ---------------------------------------------------------------------- *)
(* C13                                                                    *)
(* ---------------------------------------------------------------------- *)
Reverse(s) == [j \in 1..Len(s) |-> s[Len(s) + 1 - j]]

\* the last Shutdown call ran its loop to the end: ctx never expired
RanToEnd ==
    /\ ret.op = "Shutdown"
    /\ ret.err.kind \in {"nil", "Joined"}
    /\ "ctx" \notin SeqToSet(ret.err.at)

\* C13: c.closers lists closable singletons in the order of their
\* construction; Shutdown invokes Close on them in the reverse of that
\* order, on all of them when the deadline does not expire; then, for
\* closable Singletons X and Y where X depends on Y directly or
\* transitively, the cached X is closed before the cached Y.
C13_ReverseOrder ==
    /\ \A i, j \in 1..Len(closers) : i < j => closers[i].id < closers[j].id
    /\ ~shutdown => closed = <<>>
    /\ shutdown => \E n \in 0..Len(closers) : closed = SubSeq(Reverse(closers), 1, n)
    /\ RanToEnd =>
          /\ closed = Reverse(closers)
          /\ \A X, Y \in SingletonTypes \cap ClosableTypes :
                Y \in Reach(X) =>
                   \E i, j \in 1..Len(closed) :
                      /\ i < j
                      /\ closed[i] = singletons[X]
                      /\ closed[j] = singletons[Y]

\* the chain A -> B -> C, all Singleton and closable, was shut down: A was
\* closed first, C last
C13_Witness ==
    /\ RanToEnd
    /\ {"A", "B", "C"} \subseteq SingletonTypes
    /\ "B" \in Deps("A") /\ "C" \in Deps("B")
    /\ Len(closed) = 3
    /\ closed = <<singletons["A"], singletons["B"], singletons["C"]>>

(* ---------------------------------------------------------------------- *)
(* C14                                                                    *)
(* ---------------------------------------------------------------------- *)
\* the goroutine p is past the checks of Shutdown: it iterates c.closers
Iterating(p) ==
    at(p, "Shutdown", "mark") \/ at(p, "Shutdown", "close") \/ at(p, "Shutdown", "finish")

\* C14: in every interleaving of the Shutdown calls of two goroutines on a
\* sealed container, a call gets past the checks only while c.shutdown is
\* false and no other call is past them, and c.shutdown is then set for
\* good: one call iterates c.closers.  Every other call on the sealed
\* container returns AlreadyShutdown without any Close in between, Close
\* is invoked only by the iterating call, and no instance has Close invoked
\* twice.
C14_ShutdownOnce ==
    /\ [](/\ Cardinality({p \in Procs : Iterating(p)}) <= 1
          /\ \A p \in Procs :
                (at(p, "Shutdown", "close") \/ at(p, "Shutdown", "finish")) => shutdown
          /\ \A i, j \in 1..Len(closed) : closed[i] = closed[j] => i = j
          /\ \A i, j \in 1..Len(closers) : closers[i] = closers[j] => i = j)
    /\ [][/\ shutdown => shutdown'
          /\ \A p \in Procs :
                /\ (at(p, "Shutdown", "check") /\ threads'[p].pc = "mark") =>
                      (built /\ ~shutdown /\ \A q \in Procs : ~Iterating(q))
                /\ (at(p, "Shutdown", "check") /\ built /\ threads'[p].pc = "idle") =>
                      /\ shutdown
                      /\ ret'.err.kind = "AlreadyShutdown"
                      /\ closed' = closed
                /\ (ReturnsFrom(p, {"Shutdown"}) /\ ~at(p, "Shutdown", "check")) =>
                      ret'.err.kind \in {"nil", "Joined"}
          /\ closed' # closed =>
                \E p \in Procs :
                   /\ at(p, "Shutdown", "close")
                   /\ closed' = Append(closed, closers[threads[p].x.i])]_vars

\* a second Shutdown was rejected after the first closed two singletons
C14_Witness ==
    /\ built /\ shutdown
    /\ ret.op = "Shutdown" /\ ret.err.kind = "AlreadyShutdown"
    /\ Len(closers) = 2
    /\ closed = Reverse(closers)

(* ---------------------------------------------------------------------- *)
(* C15                                                                    *)
(* ---------------------------------------------------------------------- *)
\* C15: while the container is not sealed (never built, or only by Build
\* calls that failed), every Resolve, ResolveNamed and Shutdown call fails
\* with NotBuilt, invokes no constructor and no Close, and leaves every
\* field of the container as it was, c.shutdown included; so c.shutdown is
\* false as long as the container is not sealed, and the first Shutdown on
\* the sealed container runs the loop over the closers.
C15_NotBuiltRejected ==
    /\ [](~built => (~shutdown /\ closed = <<>>))
    /\ [][/\ (~built /\ ret'.op \in {"Resolve", "ResolveNamed", "Shutdown"}) =>
                /\ ret'.err.kind = "NotBuilt"
                /\ ret'.val = NoVal
                /\ calls' = <<>>
                /\ UNCHANGED <<providers, named, singletons, closers, built,
                               shutdown, ncalls, nextId, closed>>
          /\ (built /\ ~shutdown /\ ret'.op = "Shutdown") =>
                /\ shutdown'
                /\ ret'.err.kind \in {"nil", "Joined"}
                /\ \E n \in 0..Len(closers) : closed' = SubSeq(Reverse(closers), 1, n)
                /\ "ctx" \notin SeqToSet(ret'.err.at) => closed' = Reverse(closers)]_vars

\* Shutdown was rejected on a container that a failed Build left with a
\* closer
C15_Witness ==
    /\ ~built /\ failedBuild
    /\ ret.op = "Shutdown" /\ ret.err.kind = "NotBuilt"
    /\ Len(closers) >= 1
    /\ ~shutdown /\ closed = <<>>

(* ---------------------------------------------------------------------- *)
(* C16                                                                    *)
(* ---------------------------------------------------------------------- *)
\* a call of ops returns in this step
Returned(ops) ==
    /\ ret'.op \in ops
    /\ ret' # ret \/ \E p \in Procs : ReturnsFrom(p, ops)

\* C16 as stated: on a sealed container every Register and RegisterNamed
\* call returns AlreadyBuilt, whatever the name, and changes neither
\* registration mapping.
C16_AlwaysAlreadyBuilt ==
    [][(built /\ Returned({"Register", "RegisterNamed"})) =>
          /\ ret'.err.kind = "AlreadyBuilt"
          /\ UNCHANGED <<providers, named>>]_vars

\* C16: on a sealed container every Register call and every RegisterNamed
\* call with a non-empty name returns AlreadyBuilt, whether or not the type
\* or the name is registered; RegisterNamed with the empty name returns the
\* "name cannot be empty" error; no step changes a registration mapping.
C16_RegisterAfterBuild ==
    [][built =>
          /\ UNCHANGED <<providers, named>>
          /\ Returned({"Register", "RegisterNamed"}) =>
                ret'.err.kind = IF ret'.op = "RegisterNamed" /\ ret'.arg = ""
                                THEN "EmptyName" ELSE "AlreadyBuilt"]_vars

\* on the sealed container a RegisterNamed under a name not in use was
\* refused while A has an unnamed provider and B has none
C16_Witness ==
    /\ built
    /\ ret.op = "RegisterNamed" /\ ret.err.kind = "AlreadyBuilt"
    /\ ret.arg \in MoreNames \ DOMAIN named
    /\ DOMAIN providers = {"A"}
    /\ \A p \in Procs : idle(p)

(* ---------------------------------------------------------------------- *)
(* C17                                                                    *)
(* ---------------------------------------------------------------------- *)
\* the key the returned registration asked for is in use before the step
KeyInUse ==
    IF ret'.arg # "" THEN ret'.arg \in DOMAIN named ELSE ret'.typ \in DOMAIN providers

\* every entry of the mapping m is in m2, unchanged
Kept(m, m2) == \A k \in DOMAIN m : k \in DOMAIN m2 /\ m2[k] = m[k]

\* C17 as stated: a Register for an output type that has an unnamed
\* provider, and a RegisterNamed for a name in use, returns
\* DuplicateProvider.
C17_DuplicateAlwaysReported ==
    [][\A p \in Procs :
          (ReturnsFrom(p, {"Register", "RegisterNamed"}) /\ KeyInUse) =>
              ret'.err.kind = "DuplicateProvider"]_vars

\* C17: on a container not yet sealed, under every interleaving of the
\* registrations of the goroutines, a Register for an output type that has
\* an unnamed provider and a RegisterNamed for a name in use return
\* DuplicateProvider (on a sealed one, AlreadyBuilt) and change no mapping;
\* a registration that returns nil adds exactly its own key, which was not
\* in use; no step removes or replaces an entry, and each entry is filed
\* under its own output type or name.
C17_AtMostOneProvider ==
    /\ [](/\ \A t \in DOMAIN providers : providers[t].outType = t /\ providers[t].name = ""
          /\ \A n \in DOMAIN named : named[n].name = n /\ n # "")
    /\ [][/\ Kept(providers, providers')
          /\ Kept(named, named')
          /\ \A p \in Procs :
                ReturnsFrom(p, {"Register", "RegisterNamed"}) =>
                   /\ ret'.op = threads[p].op
                   /\ KeyInUse =>
                         /\ ret'.err.kind = IF built THEN "AlreadyBuilt"
                                            ELSE "DuplicateProvider"
                         /\ UNCHANGED <<providers, named>>
                   /\ ret'.err.kind = "DuplicateProvider" =>
                         /\ KeyInUse /\ ~built
                         /\ ret'.err.at = <<IF ret'.arg # "" THEN ret'.arg ELSE ret'.typ>>
                   /\ ret'.err.kind = "nil" =>
                         /\ ~KeyInUse
                         /\ IF ret'.arg # ""
                            THEN /\ DOMAIN named' = DOMAIN named \cup {ret'.arg}
                                 /\ named'[ret'.arg].outType = ret'.typ
                                 /\ UNCHANGED providers
                            ELSE /\ DOMAIN providers' = DOMAIN providers \cup {ret'.typ}
                                 /\ UNCHANGED named]_vars

\* a second Register of A, with the other lifetime, was refused on the
\* unsealed container while the other goroutine is about to insert B
C17_Witness ==
    /\ ~built
    /\ ret.op = "Register" /\ ret.err.kind = "DuplicateProvider" /\ ret.typ = "A"
    /\ "A" \in DOMAIN providers /\ providers["A"].lifetime = Transient
    /\ \E q \in Procs : at(q, "Register", "insert") /\ threads[q].x.ctor.out = "B"

(* ---------------------------------------------------------------------- *)
(* C18                                                                    *)
(* ---------------------------------------------------------------------- *)
\* C18: on a container not yet sealed a RegisterNamed is accepted exactly
\* when its name is not in use, whatever unnamed or named providers produce
\* the same type, and leaves the unnamed mapping alone; a Register is
\* accepted exactly when its output type has no unnamed provider, whatever
\* the named providers, and leaves the named mapping alone; on the sealed
\* container a Resolve of a type without unnamed provider returns
\* ProviderNotFound and invokes no constructor, whatever the named
\* providers, and every instance Resolve returns was built by the unnamed
\* provider of the requested type.
C18_IndependentNamespaces ==
    [][\A p \in Procs :
          /\ (ReturnsFrom(p, {"RegisterNamed"}) /\ ~built) =>
                /\ ret'.err.kind = IF ret'.arg \in DOMAIN named
                                   THEN "DuplicateProvider" ELSE "nil"
                /\ UNCHANGED providers
          /\ (ReturnsFrom(p, {"Register"}) /\ ~built) =>
                /\ ret'.err.kind = IF ret'.typ \in DOMAIN providers
                                   THEN "DuplicateProvider" ELSE "nil"
                /\ UNCHANGED named
          /\ (ReturnsFrom(p, {"Resolve"}) /\ built) =>
                /\ ret'.typ \notin DOMAIN providers =>
                      /\ ret'.err = Err("ProviderNotFound", <<ret'.typ>>)
                      /\ ret'.val = NoVal
                      /\ calls' = <<>>
                /\ ret'.err.kind = "nil" =>
                      /\ ret'.typ \in DOMAIN providers
                      /\ ret'.val.key = ret'.typ]_vars

\* both names hold a provider of B, B has no unnamed provider, and on the
\* sealed container Resolve(B) returned ProviderNotFound
C18_Witness ==
    /\ built
    /\ DOMAIN named = MoreNames
    /\ \A n \in MoreNames : named[n].outType = "B"
    /\ "B" \notin DOMAIN providers
    /\ ret.op = "Resolve" /\ ret.typ = "B" /\ ret.err.kind = "ProviderNotFound"

(* ---------------------------------------------------------------------- *)
(* C19                                                                    *)
(* ---------------------------------------------------------------------- *)
\* C19 as stated: a Build call that is not the first one on the container
\* (an earlier Build sealed it, or failed) returns AlreadyBuilt and invokes
\* no constructor.
C19_BuildOnlyOnce ==
    [][((built \/ failedBuild) /\ ret'.op = "Build") =>
          /\ ret'.err.kind = "AlreadyBuilt"
          /\ calls' = <<>>]_vars

\* C19: a Build call on a sealed container returns AlreadyBuilt, invokes no
\* constructor and changes nothing; a Build call on a container that is not
\* sealed, whether the first one or one after any number of failed Builds,
\* runs the build again and never returns AlreadyBuilt, and seals the
\* container exactly when it returns nil; the sealed container stays sealed,
\* so exactly one Build call per container can succeed.
C19_BuildUntilSealed ==
    [][/\ built => built'
       /\ ret'.op = "Build" =>
             IF built THEN
                 /\ ret'.err.kind = "AlreadyBuilt"
                 /\ calls' = <<>>
                 /\ UNCHANGED <<providers, named, singletons, closers, built,
                                shutdown, ncalls, nextId, closed>>
             ELSE
                 /\ ret'.err.kind # "AlreadyBuilt"
                 /\ built' = (ret'.err.kind = "nil")]_vars

\* a Build failed, a later Build sealed the container after invoking a
\* constructor again, and the Build after that was refused
C19_Witness ==
    /\ built /\ failedBuild
    /\ ret.op = "Build" /\ ret.err.kind = "AlreadyBuilt"
    /\ calls = <<>>
    /\ \E t \in Types : ncalls[t] = 2

(* ---------------------------------------------------------------------- *)
(* C20                                                                    *)
(* ---------------------------------------------------------------------- *)
\* C20: a Build call that returns an error other than AlreadyBuilt leaves
\* both registration mappings as they were and the container unsealed; on
\* the container such a Build left behind, a Register or RegisterNamed call
\* is never refused with AlreadyBuilt and, when it returns nil, has added
\* one provider, and every Resolve and ResolveNamed call returns NotBuilt.
C20_FailedBuildKeepsRegistering ==
    [][/\ (ret'.op = "Build" /\ ret'.err.kind \notin {"nil", "AlreadyBuilt"}) =>
             /\ ret'.err.kind \in BuildErrorKinds
             /\ ~built /\ ~built'
             /\ failedBuild'
             /\ UNCHANGED <<providers, named>>
       /\ (failedBuild /\ ~built /\ ret'.op \in {"Register", "RegisterNamed"}) =>
             /\ ret'.err.kind \in {"nil", "DuplicateProvider", "EmptyName"}
             /\ ~built'
             /\ ret'.err.kind = "nil" =>
                   Cardinality(DOMAIN providers') + Cardinality(DOMAIN named')
                       = Cardinality(DOMAIN providers) + Cardinality(DOMAIN named) + 1
       /\ (failedBuild /\ ~built /\ ret'.op \in {"Resolve", "ResolveNamed"}) =>
             /\ ret'.err.kind = "NotBuilt"
             /\ ~built']_vars

\* a Build failed after caching a Singleton, and then a RegisterNamed was
\* accepted on the unsealed container
C20_Witness ==
    /\ ~built /\ failedBuild
    /\ DOMAIN singletons # {}
    /\ ret.op = "RegisterNamed" /\ ret.err.kind = "nil"
    /\ DOMAIN named # {}

(* ---------------------------------------------------------------------- *)
(* C21                                                                    *)
(* ---------------------------------------------------------------------- *)
\* the keys of the instances cl[i], i in S and i >= from, in the order of cl
RECURSIVE FailedKeys(_, _, _)
FailedKeys(cl, S, from) ==
    IF from > Len(cl) THEN <<>>
    ELSE (IF from \in S THEN <<cl[from].key>> ELSE <<>>) \o FailedKeys(cl, S, from + 1)

\* C21: a Shutdown that gets past its checks and observes no expired
\* deadline invokes Close on every entry of c.closers, in reverse order,
\* whichever of the Close calls return errors; it returns nil exactly when
\* no Close returned an error, and otherwise the join of the errors of
\* exactly the Close calls that failed, in the order of the calls.
C21_ShutdownAggregates ==
    [][(built /\ ~shutdown /\ ret'.op = "Shutdown"
           /\ "ctx" \notin SeqToSet(ret'.err.at)) =>
          /\ closed' = Reverse(closers)
          /\ closeErrs' \subseteq 1..Len(closed')
          /\ (ret'.err.kind = "nil") <=> (closeErrs' = {})
          /\ ret'.err.kind # "nil" =>
                /\ ret'.err.kind = "Joined"
                /\ ret'.err.at = FailedKeys(closed', closeErrs', 1)]_vars

\* the first Close, of A, returned an error; the Close of B and of C were
\* still invoked and the result holds the error of A
C21_Witness ==
    /\ built /\ shutdown
    /\ ret.op = "Shutdown" /\ ret.err = Err("Joined", <<"A">>)
    /\ Len(closed) = 3
    /\ closed = Reverse(closers)
    /\ closed[1].out = "A"
    /\ closeErrs = {1}

(* ---------------------------------------------------------------------- *)
(* C22                                                                    *)
(* ---------------------------------------------------------------------- *)
\* a Shutdown gets past its checks in this step
ShutdownRuns == built /\ ~shutdown /\ ret'.op = "Shutdown"

\* the Close invocations are a prefix of the reverse of c.closers, and the
\* context error is in the result, as its last part, exactly when that
\* prefix is not all of it
StopsAtDeadline ==
    \E n \in 0..Len(closers) :
       /\ closed' = SubSeq(Reverse(closers), 1, n)
       /\ ("ctx" \in SeqToSet(ret'.err.at)) <=> (n < Len(closers))
       /\ n < Len(closers) =>
             /\ ret'.err.kind = "Joined"
             /\ ret'.err.at[Len(ret'.err.at)] = "ctx"
             /\ Len(ret'.err.at) <= n + 1

\* C22 as stated: the Close invocations are a prefix of the reverse
\* construction order, followed by the context error when the deadline
\* stopped them; with a context already done at the call no Close is
\* invoked and the result is not nil.
C22_ExpiredNeverNil ==
    [][ShutdownRuns =>
          /\ StopsAtDeadline
          /\ ret'.arg = "expired" =>
                /\ closed' = <<>>
                /\ ret'.err.kind # "nil"]_vars

\* C22: the Close invocations are a prefix of the reverse construction
\* order, followed by the context error when the deadline stopped them;
\* with a context already done at the call no Close is invoked, and the
\* result is the context error when c.closers is not empty, and nil when
\* it is empty (the loop that reads ctx.Err() does not run).
C22_DeadlineBetweenClosers ==
    [][ShutdownRuns =>
          /\ StopsAtDeadline
          /\ ret'.arg = "expired" =>
                /\ closed' = <<>>
                /\ closeErrs' = {}
                /\ ret'.err = IF closers = <<>> THEN Nil
                              ELSE Err("Joined", <<"ctx">>)]_vars

\* Shutdown was called with a context already done on a container with
\* two closers: no Close was invoked and the context error returned
C22_Witness ==
    /\ built /\ shutdown
    /\ ret.op = "Shutdown" /\ ret.arg = "expired"
    /\ ret.err = Err("Joined", <<"ctx">>)
    /\ Len(closers) = 2
    /\ closed = <<>>

(* ---------------------------------------------------------------------- *)
(* C23                                                                    *)
(* ---------------------------------------------------------------------- *)
\* C23: a Shutdown that gets past its checks sets c.shutdown whatever it
\* returns; c.shutdown is never reset; while it is set every Shutdown call
\* returns AlreadyShutdown and no step invokes a Close, so the closers a
\* deadline made the first call skip stay unclosed.
C23_ShutdownNotRetryable ==
    [][/\ ShutdownRuns => shutdown'
       /\ shutdown =>
             /\ shutdown'
             /\ UNCHANGED <<closed, closeErrs, closers>>
             /\ ret'.op = "Shutdown" => ret'.err = Err("AlreadyShutdown", <<>>)]_vars

\* the first Shutdown got an error from the Close of A and then stopped at
\* the deadline with two closers left; a later Shutdown was refused
C23_Witness ==
    /\ built /\ shutdown
    /\ ret.op = "Shutdown" /\ ret.err.kind = "AlreadyShutdown"
    /\ Len(closers) = 3
    /\ Len(closed) = 1
    /\ closeErrs = {1}

(* ---------------------------------------------------------------------- *)
(* C24                                                                    *)
(* ---------------------------------------------------------------------- *)
\* the goroutine p takes this step, inside or into a handler of ops
Steps(p, ops) ==
    /\ threads'[p] # threads[p]
    /\ threads[p].op \in ops \/ threads'[p].op \in ops

\* C24: on the sealed container no step of any handler, of any goroutine,
\* changes c.providers, c.named, c.singletons, c.closers or c.built; the
\* steps of Resolve and ResolveNamed change no field of the container (the
\* generic helpers Resolve[T] and ResolveNamed[T] only call these two and
\* convert the result); c.shutdown is changed only by a step of Shutdown.
C24_SealedIsImmutable ==
    [][built =>
          /\ UNCHANGED <<providers, named, singletons, closers, built>>
          /\ \A p \in Procs :
                Steps(p, {"Register", "RegisterNamed", "Build", "Resolve", "ResolveNamed"})
                   => UNCHANGED <<shutdown, closed>>
          /\ shutdown' # shutdown =>
                \E p \in Procs : at(p, "Shutdown", "mark") /\ Steps(p, {"Shutdown"})]_vars

\* on the sealed container, shut down, with a cached Singleton, a Resolve
\* has just constructed a Transient
C24_Witness ==
    /\ built /\ shutdown
    /\ \A p \in Procs : idle(p)
    /\ DOMAIN singletons # {}
    /\ ret.op = "Resolve" /\ ret.err.kind = "nil"
    /\ calls # <<>>
    /\ ret.val.key \notin DOMAIN singletons

(* ---------------------------------------------------------------------- *)
(* C25                                                                    *)
(* ---------------------------------------------------------------------- *)
\* C25: in every interleaving of the Build calls of two goroutines in
\* which no Build fails (the registrations are valid and no constructor
\* returns an error), at most one goroutine is inside Build past the check
\* of c.built; the Build call that finds the container unsealed returns
\* nil and seals it, every Build call that finds it sealed returns
\* AlreadyBuilt without invoking a constructor, so exactly one call
\* succeeds; and the constructor of each Singleton is invoked at most once,
\* and once by the time the container is sealed.
C25_ConcurrentBuild ==
    /\ [](/\ Cardinality({p \in Procs : at(p, "Build", "visit")}) <= 1
          /\ \A p \in Procs : at(p, "Build", "visit") => ~built
          /\ ~failedBuild =>
                \A t \in SingletonTypes :
                   /\ ncalls[t] <= 1
                   /\ built => (ncalls[t] = 1 /\ t \in DOMAIN singletons))
    /\ [][\A p \in Procs :
             (ReturnsFrom(p, {"Build"}) /\ ~failedBuild') =>
                IF built THEN
                    /\ ret'.err.kind = "AlreadyBuilt"
                    /\ calls' = <<>>
                    /\ UNCHANGED <<ncalls, nextId, singletons, closers>>
                ELSE
                    /\ ret'.err.kind = "nil"
                    /\ built']_vars

\* the Build of one goroutine sealed the container with two Singletons,
\* a second Build was refused, and the other goroutine is in Build again
C25_Witness ==
    /\ built /\ ~failedBuild
    /\ ret.op = "Build" /\ ret.err.kind = "AlreadyBuilt"
    /\ SingletonTypes = {"A", "B"}
    /\ \E q \in Procs : at(q, "Build", "check")

(* ---------------------------------------------------------------------- *)
(* C26                                                                    *)
(* ---------------------------------------------------------------------- *)
\* the walk of the goroutine p, in the iteration of Build's loop it is
\* about to run, given that its n-th constructor call fails
WalkOf(p, n) ==
    LET x == threads[p].x IN
    buildResolve(x.order[x.i],
                 [states |-> x.states, singletons |-> singletons,
                  closers |-> closers, st |-> St0, err |-> Nil,
                  trail |-> x.trail],
                 <<>>, n)

\* C26: when a constructor invoked by Build returns an error, the error
\* Build returns wraps that error, names the type whose constructor failed
\* and names every type that is in progress (visiting) in the walk at that
\* moment: the types on the path from the type the loop of Build took up
\* down to the Singleton under construction.
C26_BuildErrorNamesPath ==
    [][\A p \in Procs :
          (at(p, "Build", "visit") /\ ReturnsFrom(p, {"Build"})
              /\ ret'.err.kind = "ConstructorFailed") =>
             LET n == Len(calls') - Len(threads[p].x.calls)
                 b == WalkOf(p, n)
             IN
             /\ ~calls'[Len(calls')].ok
             /\ calls'[Len(calls')].out \in SeqToSet(ret'.err.wrap)
             /\ \A t \in Types :
                   b.states[t] = visiting => t \in SeqToSet(ret'.err.wrap)]_vars

(* ---------------------------------------------------------------------- *)
(* C27                                                                    *)
(* ---------------------------------------------------------------------- *)
\* C27: when Resolve(T) constructs the Transient T and a constructor, of T
\* or of a Transient input it needs directly or transitively, returns an
\* error, the error Resolve returns wraps that error and names the types
\* under construction: a dependency path that starts with T and ends with
\* the type whose constructor failed.
C27_ResolveErrorNamesPath ==
    [][(built /\ ret'.op = "Resolve" /\ ret'.err.kind = "ConstructorFailed") =>
          LET w == ret'.err.wrap
              failed == calls'[Len(calls')]
          IN
          /\ ~failed.ok
          /\ Len(w) >= 1
          /\ w[1] = ret'.typ
          /\ w[Len(w)] = failed.out
          /\ \A i \in 1..(Len(w) - 1) : w[i + 1] \in Deps(w[i])]_vars

(* ---------------------------------------------------------------------- *)
(* C28                                                                    *)
(* ---------------------------------------------------------------------- *)
\* C28: on the sealed container ResolveNamed(name, T) returns
\* ProviderNotFound, naming the name, exactly when the name is not
\* registered, whether or not T has an unnamed provider or a cached
\* instance; for a registered name it returns the type-mismatch error
\* exactly when the output type of the named provider is not assignable to
\* T; in both cases no constructor is invoked and no value returned.
C28_ResolveNamedRejects ==
    [][(built /\ ret'.op = "ResolveNamed") =>
          LET name == ret'.arg
              T == ret'.typ
          IN
          /\ name \in Names /\ T \in Types
          /\ IF name \notin DOMAIN named THEN
                 /\ ret'.err = Err("ProviderNotFound", <<name>>)
                 /\ ret'.val = NoVal
                 /\ calls' = <<>>
             ELSE IF ~(named[name].outType = T \/ (named[name].outType = "B" /\ T = "C")) THEN
                 /\ ret'.err = Err("TypeMismatch", <<named[name].outType, T>>)
                 /\ ret'.val = NoVal
                 /\ calls' = <<>>
             ELSE
                 /\ ret'.err.kind \notin {"TypeMismatch", "NotBuilt"}
                 /\ ret'.err.kind = "ProviderNotFound" => ret'.err.at # <<name>>
                 /\ calls' # <<>>]_vars

\* ResolveNamed of an unregistered name was refused although the requested
\* type has an unnamed provider and a cached instance
C28_Witness ==
    /\ built
    /\ ret.op = "ResolveNamed" /\ ret.err.kind = "ProviderNotFound"
    /\ ret.arg \notin DOMAIN named
    /\ ret.typ \in DOMAIN providers
    /\ ret.typ \in DOMAIN singletons

(* ---------------------------------------------------------------------- *)
(* C29                                                                    *)
(* ---------------------------------------------------------------------- *)
\* C29: no Build call invokes the constructor of a named provider, so such
\* a constructor has never run on a container that is not sealed and the
\* constructor error a Build returns comes from an unnamed provider; on the
\* sealed container each ResolveNamed call in which the constructor of the
\* named provider returns an error returns that error, unwrapped (a call in
\* which the constructor of a Transient input fails first does not reach
\* the constructor of the named provider).
C29_NamedNotBuilt ==
    /\ [](~built => \A n \in Names : ncalls[n] = 0)
    /\ [][/\ ret'.op = "Build" =>
                /\ \A i \in 1..Len(calls') : calls'[i].key \in Types
                /\ \A n \in Names : ncalls'[n] = ncalls[n]
          /\ (built /\ ret'.op = "ResolveNamed" /\ calls' # <<>>) =>
                LET last == calls'[Len(calls')] IN
                IF last.key = ret'.arg THEN
                    /\ ncalls'[ret'.arg] = ncalls[ret'.arg] + 1
                    /\ ~last.ok =>
                          /\ ret'.err = Err("ConstructorFailed", <<>>)
                          /\ ret'.val = NoVal
                ELSE
                    /\ ~last.ok
                    /\ last.key \in Types
                    /\ ncalls'[ret'.arg] = ncalls[ret'.arg]
                    /\ ret'.err.kind = "ConstructorFailed"]_vars

\* Build succeeded with a named provider whose constructor then returned
\* an error to two ResolveNamed calls
C29_Witness ==
    /\ built /\ ~failedBuild
    /\ ret.op = "ResolveNamed" /\ ret.err.kind = "ConstructorFailed"
    /\ ret.arg \in DOMAIN named
    /\ ncalls[ret.arg] = 2
    /\ DOMAIN singletons = {"A"}
    /\ nextId = 4
    /\ ~calls[Len(calls)].ok /\ calls[Len(calls)].key = ret.arg

(* ---------------------------------------------------------------------- *)
(* C30                                                                    *)
(* ---------------------------------------------------------------------- *)
\* the Transient inputs of the constructor of t
TransientDeps(t) == Deps(t) \cap TransientTypes

RECURSIVE TransientClosure(_)
TransientClosure(S) ==
    LET N == S \cup UNION {TransientDeps(t) : t \in S}
    IN IF N = S THEN S ELSE TransientClosure(N)

\* the Transient types construct invokes for the Singleton S: its Transient
\* inputs, and theirs
CapturedBy(S) == TransientClosure(TransientDeps(S))

\* C30: a Build invokes the constructor of a Transient T only for a
\* Singleton S that needs T directly or through Transients only, before it
\* invokes the constructor of S (which it does unless a constructor fails
\* first); a Transient that no Singleton needs in this way is not invoked
\* by Build at all, though the walk visits it.
C30_TransientOnlyForSingleton ==
    [][(ret'.op = "Build" /\ ~built) =>
          /\ \A i \in 1..Len(calls') :
                calls'[i].key \in TransientTypes =>
                   \E S \in SingletonTypes :
                      /\ calls'[i].key \in CapturedBy(S)
                      /\ \/ \E j \in (i + 1)..Len(calls') : calls'[j].key = S
                         \/ ~calls'[Len(calls')].ok
          /\ \A T \in TransientTypes :
                (\A S \in SingletonTypes : T \notin CapturedBy(S)) =>
                   /\ CountKey(calls', T) = 0
                   /\ ncalls'[T] = ncalls[T]]_vars

\* Build succeeded: the Transient C was constructed once for the Singleton
\* B, the Transient A, which no Singleton needs, not at all
C30_Witness ==
    /\ built /\ ~failedBuild
    /\ ret.op = "Build" /\ ret.err.kind = "nil"
    /\ TransientTypes = {"A", "C"} /\ SingletonTypes = {"B"}
    /\ "C" \in Deps("B")
    /\ CountKey(calls, "C") = 1
    /\ ncalls["A"] = 0

(* ---------------------------------------------------------------------- *)
(* C31                                                                    *)
(* ---------------------------------------------------------------------- *)
\* the Go types of the values that are no constructor
NonConstructorTypes == {v.typ : v \in NonConstructors}

\* C31: every Register and RegisterNamed call whose constructor is not a
\* function, returns no value, returns more than two values or returns
\* two values whose second is no error, and every RegisterNamed call with
\* the empty name, returns an error, and leaves c.providers and c.named
\* as they were.
C31_MalformedRejected ==
    [][(/\ Returned({"Register", "RegisterNamed"})
        /\ \/ ret'.typ \in NonConstructorTypes
           \/ ret'.op = "RegisterNamed" /\ ret'.arg = "")
          => /\ ret'.err.kind \in {"NotFunction", "BadResultCount", "SecondNotError",
                                   "EmptyName", "AlreadyBuilt"}
             /\ UNCHANGED <<providers, named>>]_vars

(* ---------------------------------------------------------------------- *)
(* C32                                                                    *)
(* ---------------------------------------------------------------------- *)
\* how often the construction of an instance by the provider p invokes the
\* constructor of the Transient u: once for each path of Transient inputs
\* from p to u (defined when the graph is acyclic and complete)
RECURSIVE Uses(_, _)
Uses(p, u) ==
    LET n == [i \in 1..Len(p.ins) |->
                 IF p.ins[i] \in SingletonTypes THEN 0
                 ELSE (IF p.ins[i] = u THEN 1 ELSE 0) + Uses(providers[p.ins[i]], u)]
        sum[i \in 0..Len(p.ins)] == IF i = 0 THEN 0 ELSE sum[i - 1] + n[i]
    IN sum[Len(p.ins)]

\* the sum of f over the set S
RECURSIVE Sum(_, _)
Sum(f, S) ==
    IF S = {} THEN 0
    ELSE LET x == CHOOSE y \in S : TRUE IN f[x] + Sum(f, S \ {x})

\* the instance inst is wired as the registrations say: an input of a
\* Singleton type is the instance cache holds for it, an input of a
\* Transient type is an instance of its own, wired the same way
RECURSIVE Wired(_, _)
Wired(inst, cache) ==
    LET ins == IF inst.key \in DOMAIN named THEN named[inst.key].ins
               ELSE providers[inst.key].ins
    IN /\ Len(inst.args) = Len(ins)
       /\ \A i \in 1..Len(ins) :
             IF ins[i] \in SingletonTypes THEN inst.args[i] = cache[ins[i]]
             ELSE /\ inst.args[i].key = ins[i]
                  /\ Wired(inst.args[i], cache)

\* the instances inst was built from, directly or not
RECURSIVE Inputs(_)
Inputs(inst) == UNION {{inst.args[i]} \cup Inputs(inst.args[i]) : i \in 1..Len(inst.args)}

\* C32: a successful Register or RegisterNamed adds its own record to its
\* mapping and changes no other entry, so a set of successful calls leaves
\* the same registry in whichever order they are made; and for every order
\* in which the range loop of Build yields that registry the Build that
\* runs fails when the graph has a cycle or a missing provider and, when
\* it has none, returns nil unless a constructor returned an error; on
\* success every Singleton was constructed once and every Transient once
\* per path from a Singleton, every cached Singleton is built from the
\* cached instances of its Singleton inputs, and no closer is an input of
\* a closer that precedes it in c.closers.
C32_OrderDoesNotMatter ==
    [][/\ (Returned({"Register", "RegisterNamed"}) /\ ret'.err.kind = "nil") =>
             IF ret'.op = "Register" THEN
                 /\ UNCHANGED named
                 /\ \E t \in DOMAIN providers' \ DOMAIN providers :
                       providers' = Put(providers, t, providers'[t])
             ELSE
                 /\ UNCHANGED providers
                 /\ \E n \in DOMAIN named' \ DOMAIN named :
                       named' = Put(named, n, named'[n])
       /\ BuildRan =>
             IF HasCycle \/ ~UnnamedSatisfied \/ ~NamedSatisfied THEN
                 ret'.err.kind \in BuildErrorKinds
             ELSE
                 /\ ret'.err.kind = IF AllOk(calls') THEN "nil" ELSE "ConstructorFailed"
                 /\ AllOk(calls') =>
                       /\ \A t \in SingletonTypes : CountKey(calls', t) = 1
                       /\ \A u \in TransientTypes :
                             CountKey(calls', u) =
                                Sum([t \in SingletonTypes |-> Uses(providers[t], u)],
                                    SingletonTypes)
                       /\ \A t \in SingletonTypes : Wired(singletons'[t], singletons')
                       /\ \A i, j \in 1..Len(closers') :
                             closers'[j] \in Inputs(closers'[i]) => j < i]_vars

\* a first Build has succeeded on A(B, C), B(C), C, all Singleton, and a
\* named provider, registered in some order and visited in some order
C32_Witness ==
    /\ ret.op = "Build" /\ ret.err.kind = "nil" /\ ~failedBuild
    /\ SingletonTypes = {"A", "B", "C"}
    /\ Len(providers["A"].ins) = 2
    /\ DOMAIN named # {}
    /\ Len(closers) = 3

(* ---------------------------------------------------------------------- *)
(* C33                                                                    *)
(* ---------------------------------------------------------------------- *)
\* C33: a Build that runs after a Build has failed, whatever that one left
\* tagged in its states map, returns CircularDependency only when the
\* registered graph has a cycle, and the chain it reports is one; when the
\* graph is acyclic, every declared input has an unnamed provider and no
\* constructor returns an error, it returns nil and seals the container.
C33_TagsDoNotSurvive ==
    [][(BuildRan /\ failedBuild) =>
          /\ ret'.err.kind = "CircularDependency" =>
                /\ HasCycle
                /\ \E t \in SeqToSet(ret'.err.at) : OnCycle(t)
          /\ (~HasCycle /\ UnnamedSatisfied /\ NamedSatisfied /\ AllOk(calls')) =>
                /\ ret'.err.kind = "nil"
                /\ built']_vars

\* on A(B, C), B(C), C, all Singleton, a Build failed in the constructor of
\* B while B was tagged visiting (C was constructed, A was not); the next
\* Build constructed C, B and A and returned nil
C33_Witness ==
    /\ built /\ failedBuild
    /\ ret.op = "Build" /\ ret.err.kind = "nil"
    /\ SingletonTypes = {"A", "B", "C"}
    /\ Len(providers["A"].ins) = 2
    /\ ncalls["C"] = 2 /\ ncalls["B"] = 2 /\ ncalls["A"] = 1
    /\ Len(calls) = 3

(* ---------------------------------------------------------------------- *)
(* C34                                                                    *)
(* ---------------------------------------------------------------------- *)
\* C34: on a sealed container c.closers holds exactly the instances of the
\* singleton cache that are io.Closers, each once, in the order of their
\* construction: every closer is the instance Resolve returns for its
\* type.
C34_ClosersAreCached ==
    built =>
       /\ \A i \in 1..Len(closers) :
             /\ closers[i].key \in DOMAIN singletons
             /\ closers[i] = singletons[closers[i].key]
       /\ \A t \in DOMAIN singletons :
             singletons[t].out \in ClosableTypes =>
                \E i \in 1..Len(closers) : closers[i] = singletons[t]
       /\ \A i, j \in 1..Len(closers) : i < j => closers[i].id < closers[j].id

(* ---------------------------------------------------------------------- *)
(* C35                                                                    *)
(* ---------------------------------------------------------------------- *)
\* C35: c.closers never holds the same instance twice, and over all
\* Shutdown calls Close is invoked at most once on each instance, also on
\* a container where the constructor of a Singleton returns the Singleton
\* instance it was given.
C35_CloseAtMostOnce ==
    /\ \A i, j \in 1..Len(closers) : closers[i] = closers[j] => i = j
    /\ \A i, j \in 1..Len(closed) : closed[i] = closed[j] => i = j

(* ---------------------------------------------------------------------- *)
(* C36                                                                    *)
(* ---------------------------------------------------------------------- *)
\* C36: once c.shutdown is set, Resolve and ResolveNamed behave as before:
\* they never return NotBuilt or AlreadyShutdown and change no field of
\* the container; Resolve of a type with a cached Singleton returns that
\* instance, closed or not, without error and without invoking a
\* constructor; Resolve of a Transient type and ResolveNamed of a
\* registered name with an assignable type invoke constructors and, when
\* none of them returns an error, return an instance that did not exist
\* before the call.
C36_ResolveAfterShutdown ==
    [][(shutdown /\ Returned({"Resolve", "ResolveNamed"})) =>
          /\ ret'.err.kind \notin {"NotBuilt", "AlreadyShutdown"}
          /\ UNCHANGED <<providers, named, singletons, closers, built, shutdown, closed>>
          /\ (ret'.op = "Resolve" /\ ret'.typ \in DOMAIN singletons) =>
                /\ ret'.err = Nil
                /\ ret'.val = singletons[ret'.typ]
                /\ calls' = <<>>
          /\ \/ ret'.op = "Resolve" /\ ret'.typ \in TransientTypes
             \/ /\ ret'.op = "ResolveNamed"
                /\ ret'.arg \in DOMAIN named
                /\ AssignableTo(named[ret'.arg].outType, ret'.typ)
             => /\ calls' # <<>>
                /\ ret'.err.kind = IF AllOk(calls') THEN "nil" ELSE "ConstructorFailed"
                /\ AllOk(calls') =>
                      /\ calls'[Len(calls')].key = IF ret'.op = "Resolve" THEN ret'.typ
                                                   ELSE ret'.arg
                      /\ ret'.val.key = calls'[Len(calls')].key
                      /\ ret'.val.id >= nextId /\ ret'.val.id < nextId']_vars

\* after a Shutdown that closed the Singleton A, Resolve(A) returned the
\* closed instance
C36_Witness ==
    /\ shutdown
    /\ ret.op = "Resolve" /\ ret.err.kind = "nil"
    /\ ret.typ \in DOMAIN singletons
    /\ \E i \in 1..Len(closed) : closed[i] = ret.val

(* ---------------------------------------------------------------------- *)
(* C37                                                                    *)
(* ---------------------------------------------------------------------- *)
\* the handlers that take c.mu.Lock(), and those that take c.mu.RLock()
Writers == {"Register", "RegisterNamed", "Build", "Shutdown"}
Readers == {"Resolve", "ResolveNamed"}

\* C37: a goroutine inside Build or Shutdown holds the write lock, and no
\* other goroutine is inside a handler then; a goroutine inside Resolve or
\* ResolveNamed holds the read lock, and no goroutine holds the write lock
\* then.  Every step that invokes a constructor or a Close is taken by a
\* goroutine holding the lock of its handler: a constructor of Build and a
\* Close of Shutdown are invoked while no Resolve or ResolveNamed is in
\* flight, a constructor of Resolve or ResolveNamed while no Build and no
\* Shutdown is.
C37_LocksAroundUserCode ==
    /\ [](\A p \in Procs :
             /\ threads[p].op \in Writers =>
                   /\ mu = [w |-> p, r |-> {}]
                   /\ \A q \in Procs \ {p} : idle(q)
             /\ threads[p].op \in Readers =>
                   /\ p \in mu.r /\ mu.w = ""
                   /\ \A q \in Procs : threads[q].op \notin Writers)
    /\ [][(nextId' # nextId \/ closed' # closed) =>
             \E p \in Procs :
                /\ threads'[p] # threads[p]
                /\ \A q \in Procs \ {p} : threads'[q] = threads[q]
                /\ IF closed' # closed THEN at(p, "Shutdown", "close")
                   ELSE \/ at(p, "Build", "visit")
                        \/ at(p, "Resolve", "body")
                        \/ at(p, "ResolveNamed", "body")
                /\ IF threads[p].op \in Writers
                   THEN mu.w = p /\ \A q \in Procs \ {p} : idle(q)
                   ELSE p \in mu.r /\ mu.w = ""]_vars

\* on the sealed container both goroutines are inside Resolve, each holding
\* the read lock, after a Resolve that constructed a Transient
C37_Witness ==
    /\ built
    /\ mu = [w |-> "", r |-> Procs]
    /\ \A p \in Procs : at(p, "Resolve", "body")
    /\ ret.op = "Resolve" /\ calls # <<>>

(* ---------------------------------------------------------------------- *)
(* C38                                                                    *)
(* ---------------------------------------------------------------------- *)
\* the instances of Transient providers constructed for inst: its inputs
\* of Transient types and, transitively, theirs
RECURSIVE TransientInputs(_)
TransientInputs(inst) ==
    UNION {IF inst.args[i].key \in SingletonTypes THEN {}
           ELSE {inst.args[i]} \cup TransientInputs(inst.args[i]) :
           i \in 1..Len(inst.args)}

\* inst holds, for every Transient type u, as many distinct instances of u
\* as there are paths of Transient inputs from the provider p to u
FreshPerPath(inst, p) ==
    \A u \in TransientTypes :
       Cardinality({x \in TransientInputs(inst) : x.key = u}) = Uses(p, u)

\* C38: a Resolve of a Transient type or a ResolveNamed that returns an
\* instance has invoked no Singleton constructor and has invoked the
\* constructor of every Transient type u once for each path of Transient
\* inputs that leads from the requested provider to u (and once more when
\* u is the requested type), and the instance returned holds that many
\* distinct instances of u; so does every Singleton a Build constructs.
C38_NoPerCallSharing ==
    [][/\ (/\ Returned({"Resolve", "ResolveNamed"})
           /\ ret'.err.kind = "nil"
           /\ calls' # <<>>) =>
             LET p == IF ret'.op = "Resolve" THEN providers[ret'.typ]
                      ELSE named[ret'.arg]
             IN /\ \A t \in SingletonTypes : CountKey(calls', t) = 0
                /\ \A u \in TransientTypes :
                      CountKey(calls', u) =
                         Uses(p, u) + (IF Key(p) = u THEN 1 ELSE 0)
                /\ FreshPerPath(ret'.val, p)
       /\ (BuildRan /\ ret'.err.kind = "nil") =>
             \A t \in SingletonTypes : FreshPerPath(singletons'[t], providers[t])]_vars

\* Resolve(A) for the Transient A(B, C), with B(C) and C Transient, invoked
\* the constructor of C twice and returned an A holding two instances of C
C38_Witness ==
    /\ ret.op = "Resolve" /\ ret.typ = "A" /\ ret.err.kind = "nil"
    /\ {"A", "B", "C"} \subseteq TransientTypes
    /\ CountKey(calls, "C") = 2
    /\ Len(ret.val.args) = 2
    /\ ret.val.args[1].args[1].key = "C"
    /\ ret.val.args[2].key = "C"
    /\ ret.val.args[1].args[1].id # ret.val.args[2].id

(* ---------------------------------------------------------------------- *)
(* C39                                                                    *)
(* ---------------------------------------------------------------------- *)
\* the provider records RegisterNamed stores for NamedConstructors
NamedRecords ==
    {[ins |-> c.ins, lifetime |-> l, name |-> n, outType |-> c.out] :
        c \in NamedConstructors, l \in Lifetimes, n \in Names}

\* the container after Register and RegisterNamed calls that were all
\* accepted: any finite registration set, the sets with a cycle, a
\* self-dependency or a missing provider included
InitAnyRegistry ==
    /\ providers \in Registered
    /\ named \in {EmptyMap} \cup {[n \in {r.name} |-> r] : r \in NamedRecords}
    /\ singletons = EmptyMap
    /\ closers = <<>>
    /\ built = FALSE
    /\ shutdown = FALSE
    /\ ret = [op |-> IF providers = EmptyMap /\ named = EmptyMap
                     THEN "New" ELSE "Register",
              arg |-> "", typ |-> "", err |-> Nil, val |-> NoVal]
    /\ calls = <<>>
    /\ ncalls = [k \in Keys |-> 0]
    /\ nextId = 1
    /\ failedBuild = FALSE
    /\ closed = <<>>
    /\ closeErrs = {}
    /\ mu = [w |-> "", r |-> {}]
    /\ threads = [p \in Procs |-> Idle]

\* the steps the goroutine p takes inside Build, Resolve and ResolveNamed,
\* after it has acquired the lock of the handler
Inside(p) ==
    \/ BuildCheck(p)
    \/ BuildVisit(p)
    \/ BuildFinish(p)
    \/ ResolveCheck(p)
    \/ ResolveBody(p)
    \/ ResolveNamedBody(p)

\* termination is a matter of one handler at a time: Build runs under the
\* write lock, and Resolve and ResolveNamed write nothing another call
\* reads; one goroutine makes the calls
Callers == {"p1"}

TerminatingNext ==
    \E p \in Callers :
       \/ BuildCall(p)
       \/ ResolveCall(p)
       \/ ResolveNamedCall(p)
       \/ Inside(p)

\* the handler p is in would invoke more constructors than the exploration
\* follows, whichever constructor fails: its next step is cut off by Within
Capped(p) ==
    \/ /\ at(p, "Build", "visit")
       /\ threads[p].x.i <= Len(threads[p].x.order)
       /\ \A failAt \in FailChoices(WalkOf(p, 0).st.calls) :
             ~Within(WalkOf(p, failAt).st.calls)
    \/ /\ at(p, "Resolve", "body")
       /\ \A t \in Types :
             /\ ~cached(t)
             /\ t \in DOMAIN providers
             /\ \A failAt \in FailChoices(construct(providers[t], singletons, St0, 0).st.calls) :
                   ~Within(construct(providers[t], singletons, St0, failAt).st.calls)
    \/ /\ at(p, "ResolveNamed", "body")
       /\ \A name \in MoreNames, t \in Types :
             /\ name \in DOMAIN named
             /\ AssignableTo(named[name].outType, t)
             /\ \A failAt \in FailChoices(construct(named[name], singletons, St0, 0).st.calls) :
                   ~Within(construct(named[name], singletons, St0, failAt).st.calls)

\* the steps of Inside(p) that read c.built or run the loop over c.named
Checks(p) == BuildCheck(p) \/ BuildFinish(p) \/ ResolveCheck(p)

\* the steps of Inside(p) that may invoke constructors
Constructs(p) == BuildVisit(p) \/ ResolveBody(p) \/ ResolveNamedBody(p)

\* the condition under which Constructs(p) is enabled: the goroutine p is
\* at such a step and the step is not cut off
CanConstruct(p) ==
    /\ \/ at(p, "Build", "visit") /\ threads[p].x.i <= Len(threads[p].x.order)
       \/ at(p, "Resolve", "body")
       \/ at(p, "ResolveNamed", "body")
    /\ ~Capped(p)

\* A goroutine that holds the lock of its handler is runnable, and the Go
\* scheduler runs every runnable goroutine: the steps inside a handler are
\* weakly fair, goroutine by goroutine.  The second conjunct is
\* WF_vars(Constructs(p)) with the enabling condition of Constructs(p)
\* written out as CanConstruct(p).  Nothing obliges a goroutine to call a
\* handler, and nothing is assumed about the acquisition of a lock.
Fair(p) ==
    /\ WF_vars(Checks(p))
    /\ []<>(~CanConstruct(p)) \/ []<><<Constructs(p)>>_vars

Terminating ==
    InitAnyRegistry /\ [][TerminatingNext]_vars /\ \A p \in Callers : Fair(p)

\* no type occurs twice in the sequence s
NoRepeat(s) == \A i, j \in 1..Len(s) : s[i] = s[j] => i = j

\* C39: (a) within one Build no type is tagged in progress (expanded) more
\* than once, and every type tagged so far is in progress or done; (b) the
\* registry of a sealed container has no cycle and no missing input, so the
\* recursion of construct follows an acyclic graph; (c) every goroutine
\* that is inside Build, Resolve or ResolveNamed returns from it (as long
\* as the exploration still follows constructor invocations, which it does
\* throughout a first Build), whatever the registration set: with a cycle,
\* a self-dependency or a missing provider.
C39_HandlersTerminate ==
    /\ [](\A p \in Procs :
            at(p, "Build", "visit") =>
               /\ NoRepeat(threads[p].x.trail)
               /\ \A t \in Types :
                     threads[p].x.states[t] # unvisited
                        <=> t \in SeqToSet(threads[p].x.trail))
    /\ [](built => ~HasCycle /\ UnnamedSatisfied /\ NamedSatisfied)
    /\ [](\A p \in Procs :
            at(p, "Build", "visit") /\ threads[p].x.id0 = 1 => ~Capped(p))
    /\ \A p \in Callers : (~idle(p)) ~> (idle(p) \/ Capped(p))

\* a Build that walked the diamond A(B, C), B(C), C from A has tagged each
\* of the three types once and is about to take up the next key, with
\* constructor invocations left
C39_Witness ==
    \E p \in Procs :
       /\ at(p, "Build", "visit")
       /\ threads[p].x.i = 2
       /\ threads[p].x.trail = <<"A", "B", "C">>
       /\ providers["A"].ins = <<"B", "C">>
       /\ ~Capped(p)

(* ---------------------------------------------------------------------- *)
(* C40                                                                    *)
(* ---------------------------------------------------------------------- *)
\* a step changes a registration mapping
RegistryChanges == providers' # providers \/ named' # named

\* the step is the return of an accepted Register or RegisterNamed call of
\* the goroutine p, and it has stored the provider under its key
Registers(p) ==
    /\ ReturnsFrom(p, {"Register", "RegisterNamed"})
    /\ ret'.err.kind = "nil"
    /\ IF ret'.arg # ""
       THEN /\ ret'.arg \in DOMAIN named' \ DOMAIN named
            /\ named'[ret'.arg].outType = ret'.typ
            /\ Kept(named, named') /\ UNCHANGED providers
       ELSE /\ ret'.typ \in DOMAIN providers' \ DOMAIN providers
            /\ Kept(providers, providers') /\ UNCHANGED named

\* no goroutine is inside Build, past its c.mu.Lock()
NoBuildRuns == \A q \in Procs : threads[q].op = "Build" => idle(q)

\* the step is the Build of the goroutine p sealing the container: Build
\* has walked every key of c.providers, in the order it took them at its
\* start, has tagged each visited, finds every named provider valid, and
\* has itself invoked the constructor of every unnamed Singleton
Seals(p) ==
    LET x == threads[p].x IN
    /\ at(p, "Build", "visit")
    /\ SeqToSet(x.order) = DOMAIN providers
    /\ \A t \in DOMAIN providers : x.states[t] = visited
    /\ \A n \in DOMAIN named : validateNamedProvider(n, named[n]).kind = "nil"
    /\ \A t \in SingletonTypes :
          /\ t \in DOMAIN singletons
          /\ singletons[t].id >= x.id0
          /\ CountKey(x.calls, t) = 1
    /\ UNCHANGED <<providers, named>>

\* C40 as stated: as C40 below, but every Register and RegisterNamed call
\* that returns on a sealed container returns AlreadyBuilt.
C40_AlwaysAlreadySealed ==
    /\ [](built => /\ ~HasCycle /\ UnnamedSatisfied /\ NamedSatisfied
                   /\ SingletonTypes \subseteq DOMAIN singletons)
    /\ [][/\ RegistryChanges => \E p \in Procs : Registers(p)
          /\ \A p \in Procs :
                (ReturnsFrom(p, {"Register", "RegisterNamed"}) /\ ret'.err.kind = "nil")
                   => (Registers(p) /\ ~built /\ NoBuildRuns)
          /\ (built /\ Returned({"Register", "RegisterNamed"})) =>
                (ret'.err.kind = "AlreadyBuilt" /\ ~RegistryChanges)
          /\ (built' /\ ~built) => \E p \in Procs : Seals(p)]_vars

\* C40: in every interleaving of the Register, RegisterNamed and Build
\* calls of the goroutines, (a) a registration mapping changes only by the
\* return of an accepted registration, which stores its provider while the
\* container is unsealed and no goroutine is inside Build: before the
\* sealing Build took up the keys, or after a Build that failed; (b) a
\* Register or RegisterNamed call that returns on the sealed container is
\* rejected and changes nothing: with AlreadyBuilt, or with the
\* "name cannot be empty" error when RegisterNamed is given the empty name;
\* (c) the Build that seals has walked exactly the keys of c.providers,
\* found every named provider valid and invoked the constructor of every
\* unnamed Singleton itself; (d) the registry of a sealed container is
\* acyclic and complete and every unnamed Singleton is cached.
C40_RegistrationsAreValidated ==
    /\ [](built => /\ ~HasCycle /\ UnnamedSatisfied /\ NamedSatisfied
                   /\ SingletonTypes \subseteq DOMAIN singletons)
    /\ [][/\ RegistryChanges => \E p \in Procs : Registers(p)
          /\ \A p \in Procs :
                (ReturnsFrom(p, {"Register", "RegisterNamed"}) /\ ret'.err.kind = "nil")
                   => (Registers(p) /\ ~built /\ NoBuildRuns)
          /\ (built /\ Returned({"Register", "RegisterNamed"})) =>
                /\ ret'.err.kind = IF ret'.op = "RegisterNamed" /\ ret'.arg = ""
                                   THEN "EmptyName" ELSE "AlreadyBuilt"
                /\ ~RegistryChanges
          /\ (built' /\ ~built) => \E p \in Procs : Seals(p)]_vars

\* a Build failed, a later Build sealed the container, which holds a
\* Singleton, and a Register for a type that has no provider was refused
\* with AlreadyBuilt while the other goroutine, inside register, is about
\* to read c.built
C40_Witness ==
    /\ built /\ failedBuild
    /\ SingletonTypes # {}
    /\ ret.op = "Register" /\ ret.err.kind = "AlreadyBuilt"
    /\ ret.typ \notin DOMAIN providers
    /\ \E q \in Procs : at(q, "Register", "check")

====
